---- MODULE Spec2Model ----
(***************************************************************************)
(* Model of the end-to-end encryption engine: X3DH key agreement           *)
(* (lib/crypto/x3dh), the Double Ratchet (lib/crypto/double-ratchet.ts),   *)
(* the protocol orchestrator (lib/crypto/protocol) and the directory's     *)
(* one-time prekey claim (supabase migration).                             *)
(*                                                                         *)
(* Cryptography is symbolic.  A DH key pair is an integer id; its public   *)
(* JWK is the record [x, y]; DH(priv, pub) is the unordered pair of the    *)
(* two ids; HKDF and HMAC are injective constructors; an AES-GCM           *)
(* ciphertext opens only under the message key that sealed it.             *)
(***************************************************************************)
EXTENDS Integers, Sequences, FiniteSets, TLC

\* ------------------------------------------------------------------------
\* Program constants and bounds
\* ------------------------------------------------------------------------
MAX_SKIP == 256

\* messages each party may encrypt in the two-party specifications
MaxSent == 3
\* fresh ratchet DH key pairs that may be generated after Init
MaxKeys == 4
\* sequence numbers below MaxKept reach the peer in the one-chain
\* specification, as do those from MAX_SKIP on; the transport loses the rest
MaxKept == 2
\* messages encrypted beyond MAX_SKIP in the one-chain specification
MaxOver == 2
\* envelopes whose payload the transport may alter
MaxTampered == 2
\* one-time prekey rows the target user has published
NumOtpk == 2
\* initiators claiming concurrently, and claims each of them makes
NumClaimers == 2
MaxClaims == 2
\* orchestrator calls that may be in flight at once on one conversation
MaxConcTampered == 1
\* messages each party may encrypt in the concurrent specifications
MaxConcSent == 2
\* fresh ratchet key pairs in the concurrent specifications
MaxConcKeys == 4

Party == {"A", "B"}
Peer(p) == IF p = "A" THEN "B" ELSE "A"

\* key ids of the long-term material of the two users
IKa == 1
IKb == 2
SPKb == 3
EKa == 4
OPKb == 5
\* first ratchet key (Alice's DHs made by initAlice); later ones follow
FirstRatchetKey == 6

\* ------------------------------------------------------------------------
\* Crypto primitives facade (lib/crypto/utils.ts)
\* ------------------------------------------------------------------------
NoJwk == [x |-> 0, y |-> 0]
NoKeyPair == 0

\* exportKey of a public key: the JWK with both coordinates
exportKey(k) == [x |-> k, y |-> k]

\* importKey('jwk', ...): the key handle of a JWK
importDHPublicKey(jwk) == jwk.x

\* ECDH deriveBits: the same 32 bytes whichever side computes them
performDH(priv, pub) == {priv, pub}

\* concatBuffers followed by hkdf with the zero salt: the sequence of inputs
concatBuffers(bufs) == bufs

hkdfZeroSalt(ikm) == ikm

\* chain keys and message keys: the root they descend from and their index
NoKey == [root |-> << >>, i |-> -1]

\* hkdf(dhOut, rk, 'signal-root-chain', 64)
hkdfRootChain(dhOut, rk) == Append(rk, dhOut)

kdfRK(rk, dhOut) ==
  LET derived == hkdfRootChain(dhOut, rk)
  IN  [rootKey |-> derived, chainKey |-> [root |-> derived, i |-> 0]]

kdfCK(ck) ==
  [chainKey |-> [root |-> ck.root, i |-> ck.i + 1],
   messageKey |-> [root |-> ck.root, i |-> ck.i]]

\* AES-256-GCM under the key and nonce derived from the message key
aesEncrypt(mk, pt) == [mk |-> mk, pt |-> pt]

AuthFail == -1
aesDecrypt(mk, ct) == IF ct.mk = mk THEN ct.pt ELSE AuthFail

\* a ciphertext no message key opens (tampered or forged payload)
Garbage == [mk |-> NoKey, pt |-> 0]

\* ------------------------------------------------------------------------
\* X3DH (lib/crypto/x3dh)
\* ------------------------------------------------------------------------
NoOTPK == [keyId |-> 0, publicKey |-> NoJwk]

\* ECDSA over the data with the private key of a signing key pair
signData(privateKey, data) == [signer |-> privateKey, data |-> data]

initiateX3DH(aliceIdentityKeyPair, bobBundle, ephemeralKeyPair) ==
  LET bobIdentityKey == importDHPublicKey(bobBundle.identityKey)
      bobSignedPreKey == importDHPublicKey(bobBundle.signedPreKey.publicKey)
      dh1 == performDH(aliceIdentityKeyPair, bobSignedPreKey)
      dh2 == performDH(ephemeralKeyPair, bobIdentityKey)
      dh3 == performDH(ephemeralKeyPair, bobSignedPreKey)
      dhConcat ==
        IF bobBundle.oneTimePreKey # NoOTPK
        THEN LET bobOTPK == importDHPublicKey(bobBundle.oneTimePreKey.publicKey)
                 dh4 == performDH(ephemeralKeyPair, bobOTPK)
             IN  concatBuffers(<<dh1, dh2, dh3, dh4>>)
        ELSE concatBuffers(<<dh1, dh2, dh3>>)
  IN  [sharedSecret |-> hkdfZeroSalt(dhConcat),
       ephemeralPublicKey |-> exportKey(ephemeralKeyPair),
       usedOneTimePreKeyId |-> bobBundle.oneTimePreKey.keyId]

\* variant: the first two DH values are concatenated in the other order
completeX3DHSwapped(bobIKP, bobSPKP, bobOTPKP, aliceIdentityKey, aliceEphemeralKey) ==
  LET aliceIK == importDHPublicKey(aliceIdentityKey)
      aliceEK == importDHPublicKey(aliceEphemeralKey)
      dh1 == performDH(bobSPKP, aliceIK)
      dh2 == performDH(bobIKP, aliceEK)
      dh3 == performDH(bobSPKP, aliceEK)
      dhConcat ==
        IF bobOTPKP # NoKeyPair
        THEN LET dh4 == performDH(bobOTPKP, aliceEK)
             IN  concatBuffers(<<dh2, dh1, dh3, dh4>>)
        ELSE concatBuffers(<<dh2, dh1, dh3>>)
  IN  hkdfZeroSalt(dhConcat)

completeX3DH(bobIKP, bobSPKP, bobOTPKP, aliceIdentityKey, aliceEphemeralKey) ==
  LET aliceIK == importDHPublicKey(aliceIdentityKey)
      aliceEK == importDHPublicKey(aliceEphemeralKey)
      dh1 == performDH(bobSPKP, aliceIK)
      dh2 == performDH(bobIKP, aliceEK)
      dh3 == performDH(bobSPKP, aliceEK)
      dhConcat ==
        IF bobOTPKP # NoKeyPair
        THEN LET dh4 == performDH(bobOTPKP, aliceEK)
             IN  concatBuffers(<<dh1, dh2, dh3, dh4>>)
        ELSE concatBuffers(<<dh1, dh2, dh3>>)
  IN  hkdfZeroSalt(dhConcat)

\* ------------------------------------------------------------------------
\* Double Ratchet (lib/crypto/double-ratchet.ts)
\* ------------------------------------------------------------------------
EmptyMap == << >>

NewRatchet ==
  [DHs |-> NoKeyPair, DHrJwk |-> NoJwk, DHr |-> 0, RK |-> << >>,
   CKs |-> NoKey, CKr |-> NoKey, Ns |-> 0, Nr |-> 0, PN |-> 0,
   MKSKIPPED |-> EmptyMap]

initAlice(r, sharedSecret, bobDHPublicKey, freshKeyPair) ==
  LET dhOut == performDH(freshKeyPair, bobDHPublicKey)
      k == kdfRK(sharedSecret, dhOut)
  IN  [r EXCEPT !.DHs = freshKeyPair,
                !.DHr = bobDHPublicKey,
                !.DHrJwk = exportKey(bobDHPublicKey),
                !.RK = k.rootKey,
                !.CKs = k.chainKey,
                !.CKr = NoKey,
                !.Ns = 0, !.Nr = 0, !.PN = 0]

initBob(r, sharedSecret, bobDHKeyPair) ==
  [r EXCEPT !.DHs = bobDHKeyPair,
            !.DHr = 0,
            !.DHrJwk = NoJwk,
            !.RK = sharedSecret,
            !.CKs = NoKey,
            !.CKr = NoKey,
            !.Ns = 0, !.Nr = 0, !.PN = 0]

\* variant: the map is keyed by the sequence number alone
skippedKeyOfNumber(dh, n) == <<0, 0, n>>

\* the string `${dh.x}:${dh.y}:${n}` that keys the MKSKIPPED map
skippedKeyOf(dh, n) == <<dh.x, dh.y, n>>

MapSet(m, k, v) == [q \in (DOMAIN m) \cup {k} |-> IF q = k THEN v ELSE m[q]]
\* variant: the entry stays in the map
MapDeleteKept(m, k) == m

MapDelete(m, k) == [q \in (DOMAIN m) \ {k} |-> m[q]]

\* encrypt: the state afterwards and the value returned (or the error)
encrypt(r, plaintext) ==
  IF r.CKs = NoKey \/ r.DHs = NoKeyPair
  THEN [state |-> r, res |-> "NotInitialized",
        header |-> [dh |-> NoJwk, pn |-> 0, n |-> 0], ciphertext |-> Garbage]
  ELSE LET k == kdfCK(r.CKs)
           ciphertext == aesEncrypt(k.messageKey, plaintext)
           header == [dh |-> exportKey(r.DHs), pn |-> r.PN, n |-> r.Ns]
       IN  [state |-> [r EXCEPT !.CKs = k.chainKey, !.Ns = r.Ns + 1],
            res |-> "ok", header |-> header, ciphertext |-> ciphertext]

\* the guard of skipMessageKeys that throws 'Too many skipped messages'
skipThrows(r, until) == r.CKr # NoKey /\ r.Nr + MAX_SKIP < until

\* variant: the cache key is built after Nr was incremented
skipStepKeyAfterIncrement(r, dhPublicJwk) ==
  LET k == kdfCK(r.CKr)
      key == skippedKeyOf(dhPublicJwk, r.Nr + 1)
  IN  [r EXCEPT !.CKr = k.chainKey,
                !.MKSKIPPED = MapSet(@, key, k.messageKey),
                !.Nr = r.Nr + 1]

\* one pass of the loop body (lines 144-148)
skipStep(r, dhPublicJwk) ==
  LET k == kdfCK(r.CKr)
      key == skippedKeyOf(dhPublicJwk, r.Nr)
  IN  [r EXCEPT !.CKr = k.chainKey,
                !.MKSKIPPED = MapSet(@, key, k.messageKey),
                !.Nr = r.Nr + 1]

\* while (Nr < until) skipStep; the passes are grouped in halves so that
\* the evaluation nests only logarithmically deep
RECURSIVE skipLoop(_, _, _)
skipLoop(r, dhPublicJwk, until) ==
  IF r.Nr >= until THEN r
  ELSE IF r.Nr + 1 = until THEN skipStep(r, dhPublicJwk)
  ELSE LET mid == r.Nr + ((until - r.Nr) \div 2)
       IN  skipLoop(skipLoop(r, dhPublicJwk, mid), dhPublicJwk, until)

\* skipMessageKeys when it does not throw
skipMessageKeys(r, dhPublicJwk, until) ==
  IF r.CKr = NoKey THEN r ELSE skipLoop(r, dhPublicJwk, until)

\* variant: the step stops after the receiving chain, with DHs and CKs as
\* they were
dhRatchetStepReceivingOnly(r, headerDh, freshKeyPair) ==
  LET DHr == importDHPublicKey(headerDh)
      k1 == kdfRK(r.RK, performDH(r.DHs, DHr))
  IN  [r EXCEPT !.PN = r.Ns, !.Ns = 0, !.Nr = 0,
                !.DHrJwk = headerDh, !.DHr = DHr,
                !.RK = k1.rootKey,
                !.CKr = k1.chainKey]

\* variant: the receiving chain is derived with the new local key pair
dhRatchetStepFreshFirst(r, headerDh, freshKeyPair) ==
  LET DHr == importDHPublicKey(headerDh)
      k1 == kdfRK(r.RK, performDH(freshKeyPair, DHr))
      k2 == kdfRK(k1.rootKey, performDH(freshKeyPair, DHr))
  IN  [r EXCEPT !.PN = r.Ns, !.Ns = 0, !.Nr = 0,
                !.DHrJwk = headerDh, !.DHr = DHr,
                !.CKr = k1.chainKey,
                !.DHs = freshKeyPair,
                !.RK = k2.rootKey,
                !.CKs = k2.chainKey]

\* the DH ratchet step of decrypt (lines 107-124)
dhRatchetStep(r, headerDh, freshKeyPair) ==
  LET DHr == importDHPublicKey(headerDh)
      k1 == kdfRK(r.RK, performDH(r.DHs, DHr))
      k2 == kdfRK(k1.rootKey, performDH(freshKeyPair, DHr))
  IN  [r EXCEPT !.PN = r.Ns, !.Ns = 0, !.Nr = 0,
                !.DHrJwk = headerDh, !.DHr = DHr,
                !.CKr = k1.chainKey,
                !.DHs = freshKeyPair,
                !.RK = k2.rootKey,
                !.CKs = k2.chainKey]

decResult(r, res, pt, stepped) ==
  [state |-> r, res |-> res, pt |-> pt, stepped |-> stepped]

\* variant: the chain key is not advanced past the key that was used
decryptChainKeepsKey(r, header, ciphertext, stepped) ==
  IF skipThrows(r, header.n)
  THEN decResult(r, "TooManySkipped", AuthFail, stepped)
  ELSE LET r1 == skipMessageKeys(r, header.dh, header.n)
       IN  IF r1.CKr = NoKey
           THEN decResult(r1, "NoReceivingChain", AuthFail, stepped)
           ELSE LET k == kdfCK(r1.CKr)
                    plaintext == aesDecrypt(k.messageKey, ciphertext)
                IN  decResult(r1, IF plaintext = AuthFail THEN "AuthFail" ELSE "ok",
                              plaintext, stepped)

\* lines 127-136: skip within the chain, advance it, open the payload
decryptChain(r, header, ciphertext, stepped) ==
  IF skipThrows(r, header.n)
  THEN decResult(r, "TooManySkipped", AuthFail, stepped)
  ELSE LET r1 == skipMessageKeys(r, header.dh, header.n)
       IN  IF r1.CKr = NoKey
           THEN decResult(r1, "NoReceivingChain", AuthFail, stepped)
           ELSE LET k == kdfCK(r1.CKr)
                    r2 == [r1 EXCEPT !.CKr = k.chainKey, !.Nr = r1.Nr + 1]
                    plaintext == aesDecrypt(k.messageKey, ciphertext)
                IN  decResult(r2, IF plaintext = AuthFail THEN "AuthFail" ELSE "ok",
                              plaintext, stepped)

\* variant: every header not served from the cache makes the ratchet step
decryptAlwaysSteps(r, header, ciphertext, freshKeyPair) ==
  LET skippedKey == skippedKeyOf(header.dh, header.n)
  IN  IF skippedKey \in DOMAIN r.MKSKIPPED
      THEN LET mk == r.MKSKIPPED[skippedKey]
               r1 == [r EXCEPT !.MKSKIPPED = MapDelete(@, skippedKey)]
               plaintext == aesDecrypt(mk, ciphertext)
           IN  decResult(r1, IF plaintext = AuthFail THEN "AuthFail" ELSE "ok",
                         plaintext, FALSE)
      ELSE IF r.CKr # NoKey /\ r.DHrJwk # NoJwk /\ skipThrows(r, header.pn)
           THEN decResult(r, "TooManySkipped", AuthFail, FALSE)
           ELSE LET r1 == IF r.CKr # NoKey /\ r.DHrJwk # NoJwk
                          THEN skipMessageKeys(r, r.DHrJwk, header.pn)
                          ELSE r
                    r2 == dhRatchetStep(r1, header.dh, freshKeyPair)
                IN  decryptChain(r2, header, ciphertext, TRUE)

\* decrypt: the state afterwards (also when it throws) and the outcome
decrypt(r, header, ciphertext, freshKeyPair) ==
  LET skippedKey == skippedKeyOf(header.dh, header.n)
  IN  IF skippedKey \in DOMAIN r.MKSKIPPED
      THEN LET mk == r.MKSKIPPED[skippedKey]
               r1 == [r EXCEPT !.MKSKIPPED = MapDelete(@, skippedKey)]
               plaintext == aesDecrypt(mk, ciphertext)
           IN  decResult(r1, IF plaintext = AuthFail THEN "AuthFail" ELSE "ok",
                         plaintext, FALSE)
      ELSE LET needsRatchet == \/ r.DHrJwk = NoJwk
                               \/ r.DHrJwk.x # header.dh.x
                               \/ r.DHrJwk.y # header.dh.y
           IN  IF needsRatchet
               THEN IF r.CKr # NoKey /\ r.DHrJwk # NoJwk /\ skipThrows(r, header.pn)
                    THEN decResult(r, "TooManySkipped", AuthFail, FALSE)
                    ELSE LET r1 == IF r.CKr # NoKey /\ r.DHrJwk # NoJwk
                                   THEN skipMessageKeys(r, r.DHrJwk, header.pn)
                                   ELSE r
                             r2 == dhRatchetStep(r1, header.dh, freshKeyPair)
                         IN  decryptChain(r2, header, ciphertext, TRUE)
               ELSE decryptChain(r, header, ciphertext, FALSE)

\* ------------------------------------------------------------------------
\* Serialized session state (DoubleRatchet.serialize, persistSession)
\* ------------------------------------------------------------------------
\* base64 text of a buffer
ab2b64(buf) == [b64 |-> buf]
b642ab(str) == str.b64

\* exportKey of a private key: the JWK with the private scalar d
exportPrivateKey(k) == [x |-> k, y |-> k, d |-> k]

\* the object literal of serialize(), given the two exported halves of DHs
serializeWith(r, publicKeyOf, privateKeyOf) ==
  [DHs |-> [publicKey |-> exportKey(publicKeyOf),
            privateKey |-> exportPrivateKey(privateKeyOf)],
   DHr |-> r.DHrJwk,
   RK |-> ab2b64(r.RK),
   CKs |-> ab2b64(r.CKs),
   CKr |-> ab2b64(r.CKr),
   Ns |-> r.Ns, Nr |-> r.Nr, PN |-> r.PN,
   MKSKIPPED |-> [k \in DOMAIN r.MKSKIPPED |-> ab2b64(r.MKSKIPPED[k])]]

serialize(r) == serializeWith(r, r.DHs, r.DHs)

NoStored == serialize(NewRatchet)

\* importKey of a private JWK: the key handle of its scalar
importDHPrivateKey(jwk) == jwk.d

\* a key pair object made of two imported halves
MixedKeyPair == -2
keyPairOf(publicKey, privateKey) ==
  IF publicKey = privateKey THEN privateKey ELSE MixedKeyPair

\* variant: the skipped-key cache is not restored
deserializeWithoutSkipped(state) ==
  [DHs |-> keyPairOf(importDHPublicKey(state.DHs.publicKey),
                     importDHPrivateKey(state.DHs.privateKey)),
   DHrJwk |-> state.DHr,
   DHr |-> IF state.DHr # NoJwk THEN importDHPublicKey(state.DHr) ELSE 0,
   RK |-> b642ab(state.RK),
   CKs |-> IF state.CKs # ab2b64(NoKey) THEN b642ab(state.CKs) ELSE NoKey,
   CKr |-> IF state.CKr # ab2b64(NoKey) THEN b642ab(state.CKr) ELSE NoKey,
   Ns |-> state.Ns, Nr |-> state.Nr, PN |-> state.PN,
   MKSKIPPED |-> EmptyMap]

\* deserialize: the fields of a ratchet rebuilt from a serialized state
\* (ab2b64(NoKey) stands for the null serialize() writes for a missing chain)
deserialize(state) ==
  [DHs |-> keyPairOf(importDHPublicKey(state.DHs.publicKey),
                     importDHPrivateKey(state.DHs.privateKey)),
   DHrJwk |-> state.DHr,
   DHr |-> IF state.DHr # NoJwk THEN importDHPublicKey(state.DHr) ELSE 0,
   RK |-> b642ab(state.RK),
   CKs |-> IF state.CKs # ab2b64(NoKey) THEN b642ab(state.CKs) ELSE NoKey,
   CKr |-> IF state.CKr # ab2b64(NoKey) THEN b642ab(state.CKr) ELSE NoKey,
   Ns |-> state.Ns, Nr |-> state.Nr, PN |-> state.PN,
   MKSKIPPED |-> [k \in DOMAIN state.MKSKIPPED |-> b642ab(state.MKSKIPPED[k])]]

\* ------------------------------------------------------------------------
\* Orchestrator calls as tasks that suspend at every await
\* ------------------------------------------------------------------------
TaskIds == {"t1", "t2"}
NoHeader == [dh |-> NoJwk, pn |-> 0, n |-> 0]
NoEnv == [to |-> "A", header |-> NoHeader, ciphertext |-> Garbage]

NoTask ==
  [kind |-> "none", pc |-> "idle", pt |-> 0, env |-> NoEnv,
   ck |-> NoKey, mk |-> NoKey, ct |-> Garbage, dhs |-> 0, dhr |-> 0,
   rk |-> << >>, dhOut |-> {}, header |-> NoHeader,
   until |-> 0, skipDh |-> NoJwk, after |-> "idle",
   serPub |-> 0, serPriv |-> 0, rec |-> NoStored, raced |-> FALSE]

\* ------------------------------------------------------------------------
\* State
\* ------------------------------------------------------------------------
VARIABLES
  ratchet,   \* the live DoubleRatchet object of each party
  net,       \* envelopes in flight
  emitted,   \* every envelope encrypt has returned so far
  nextKey,   \* id of the next key pair generateDHKeyPair returns
  sent,      \* number of encrypt calls that returned, per party
  last,      \* the most recent call: its input, outcome and pre-state
  refused,   \* whether some decrypt call has failed so far
  tampered,  \* number of envelopes delivered with an altered payload
  x3,        \* one X3DH agreement: its inputs, preamble and both secrets
  otpkRows,  \* directory table one_time_prekeys of the target user
  claim,     \* the claim_one_time_prekey transaction of each initiator
  returned,  \* the rows the claims have returned
  tasks,     \* encryptMessage / decryptMessage calls in flight at user A
  stored     \* the session record persisted in each party's key store

vars == <<ratchet, net, emitted, nextKey, sent, last, refused, tampered, x3,
         otpkRows, claim, returned, tasks, stored>>

\* the variables of the two ratchets, and all the others
ratchetVars == <<ratchet, net, emitted, nextKey, sent, last, refused, tampered>>
notRatchetVars == <<x3, otpkRows, claim, returned, tasks, stored>>
claimVars == <<otpkRows, claim, returned>>
taskVars == <<tasks, stored>>

\* the bundle Alice fetched for Bob and the secret both derive from it
BobBundle ==
  [identityKey |-> exportKey(IKb),
   signedPreKey |-> [keyId |-> 1, publicKey |-> exportKey(SPKb)],
   oneTimePreKey |-> [keyId |-> 1, publicKey |-> exportKey(OPKb)]]

SharedSecret == initiateX3DH(IKa, BobBundle, EKa).sharedSecret

\* plaintext of the k-th message of party p
Msg(p, k) == (IF p = "A" THEN 1000 ELSE 2000) + k

NoCall ==
  [op |-> "none", p |-> "A", res |-> "ok", pt |-> 0, header |-> NoHeader,
   ciphertext |-> Garbage, before |-> NewRatchet, stepped |-> FALSE,
   genuine |-> TRUE, clean |-> TRUE]


Claimers == 1..NumClaimers
NoClaim == [pc |-> "idle", snapshot |-> {}, row |-> 0, skipped |-> FALSE, n |-> 0]

\* --- strings and JSON -----------------------------------------------------
\* a JSON value as far as decryptMessage looks at it: its type and, for an
\* object, its v property
Undefined == [t |-> "undefined", n |-> 0]
Num(n) == [t |-> "number", n |-> n]
Str(n) == [t |-> "string", n |-> n]
JsonNull == [type |-> "null", v |-> Undefined]
JsonNumber == [type |-> "number", v |-> Undefined]
JsonString == [type |-> "string", v |-> Undefined]
JsonObject(v) == [type |-> "object", v |-> v]

\* a string is either the text JSON.stringify made of a value or some other
\* text, which is not JSON
JSONstringify(value) == [kind |-> "json", text |-> "", value |-> value]
Raw(text) == [kind |-> "text", text |-> text, value |-> JsonNull]

\* JSON.parse throws a SyntaxError on text that is not JSON
JSONparse(str) ==
  IF str.kind = "json" THEN [threw |-> FALSE, value |-> str.value]
                       ELSE [threw |-> TRUE, value |-> JsonNull]

\* the string decryptMessage returns when anything threw
CannotDecrypt == Raw("[Khong the giai ma]")

\* input strings that do not carry v = 2
OtherTexts ==
  {Raw("hello"), Raw(""), JSONstringify(JsonNull), JSONstringify(JsonNumber),
   JSONstringify(JsonString), JSONstringify(JsonObject(Undefined)),
   JSONstringify(JsonObject(Num(1))), JSONstringify(JsonObject(Str(2)))}

\* the JSON value of a SignalMessage: v = 2, header, ciphertext
SignalMessageJson(header, ciphertext) ==
  [type |-> "object", v |-> Num(2), header |-> header, ciphertext |-> ciphertext]

\* !!value.name: the member is there (the members of an envelope are objects
\* and non-empty strings, which are truthy)
truthyMember(value, name) == value.type = "object" /\ name \in DOMAIN value

\* the chat message as the string the caller passed in
messageString(plaintext) == Raw(ToString(plaintext))

\* isSignalMessage of the hook: false for the empty string and for anything
\* that throws, else v === 2 with header and ciphertext
isSignalMessage(content) ==
  IF content = Raw("") THEN FALSE
  ELSE LET parsed == JSONparse(content)
       IN  IF parsed.threw \/ parsed.value.type = "null" THEN FALSE
           ELSE /\ parsed.value.v = Num(2)
                /\ truthyMember(parsed.value, "header")
                /\ truthyMember(parsed.value, "ciphertext")

\* the encrypt callback of the hook around encryptMessage: the message itself
\* when the hook is not ready and when encryptMessage threw
hookEncrypt(ready, message, res, header, ciphertext) ==
  IF ~ready THEN messageString(message)
  ELSE IF res = "ok" THEN JSONstringify(SignalMessageJson(header, ciphertext))
  ELSE messageString(message)

\* the string decryptMessage was last given with no v = 2 and what it returned
NoHandled == [input |-> Raw(""), output |-> Raw("")]

\* --- key store and directory records of one user --------------------------
\* the calls of initialize that may be in flight on one engine
InitCalls == {"i1", "i2"}

\* the n-th generation of key pairs: identity, signing, signed prekey,
\* one-time prekey
ikOf(n) == 10 * n + 1
skOf(n) == 10 * n + 2
spkOf(n) == 10 * n + 3
otpkOf(n) == 10 * n + 4

\* the StoredIdentity record saveLocalIdentity writes
NoIdentity == [ik |-> 0, sk |-> 0, registrationId |-> 0]
identityOf(n) == [ik |-> ikOf(n), sk |-> skOf(n), registrationId |-> n]

\* a signed prekey entry: key id, public JWK, signature over the JWK
signedPreKeyEntry(signingKeyPair, keyId, keyPair) ==
  [keyId |-> keyId, keyPair |-> keyPair, publicKey |-> exportKey(keyPair),
   signature |-> ab2b64(signData(signingKeyPair, exportKey(keyPair)))]

\* the metadata store: 0 stands for a key that was never set;
\* lastSignedPreKeyRotation is a Date.now() value, counted in days
NoMeta ==
  [nextSignedPreKeyId |-> 0, nextOneTimePreKeyId |-> 0,
   lastSignedPreKeyRotation |-> 0]

\* the rotation period, 7 * 24 * 60 * 60 * 1000 ms, in days
SevenDays == 7

\* variant: a rotation exactly seven days old still counts as recent
rotatedRecentlyInclusive(lastRotation, now) ==
  lastRotation # 0 /\ now - lastRotation <= SevenDays

\* the test rotatePreKeysIfNeeded returns on:
\* lastRotation && Date.now() - lastRotation < seven days
rotatedRecently(lastRotation, now) ==
  lastRotation # 0 /\ now - lastRotation < SevenDays

\* the IndexedDB stores of the user, empty
EmptyStore == [identity |-> NoIdentity, spks |-> {}, otpks |-> {}, meta |-> NoMeta]

\* the rows of the user in identity_keys, signed_prekeys (oldest first) and
\* one_time_prekeys
NoDirIdentity == [identity_key |-> NoJwk, signing_key |-> NoJwk]
EmptyDirectory == [identity |-> NoDirIdentity, spks |-> << >>, otpks |-> {}]

\* the locals of an initialize call: where it stands, its generation of
\* fresh key pairs, the identity record it read, the key ids it read
NoInitCall ==
  [pc |-> "idle", n |-> 0, identity |-> NoIdentity, signer |-> NoIdentity,
   nextId |-> 0, startId |-> 0]

\* bounds of the key lifecycle: initialize calls, failed writes or directory
\* calls, clearAll calls
MaxInits == 3
MaxFailures == 1
MaxClears == 1

\* one-time prekeys made per batch and the unused count below which a batch
\* is made (20 and 10 in the source, scaled down)
PoolSize == 1
RefillBelow == 1

NoLife ==
  [local |-> EmptyStore, dir |-> EmptyDirectory, initialized |-> FALSE,
   call |-> [c \in InitCalls |-> NoInitCall], started |-> 0, failures |-> 0,
   clears |-> 0, clearing |-> FALSE, cacheCleared |-> FALSE, merge |-> FALSE,
   result |-> [c \in InitCalls |-> "none"], now |-> 1]

\* --- safety number ---------------------------------------------------------
\* longest coordinate text of the identity keys the safety number is tried on
MaxCoord == 2

\* the texts of a coordinate: code units 1 and 2, up to MaxCoord of them
CoordTexts == UNION {[1..n -> {1, 2}] : n \in 1..MaxCoord}

\* identity public keys as JWKs with their coordinates as text
TextJwks == [x : CoordTexts, y : CoordTexts]

\* JSON.stringify of such a JWK: the members in their order, code unit 0
\* standing for the punctuation between them
stringifyJwk(jwk) == jwk.x \o <<0>> \o jwk.y

\* the < of two strings: by code units, a proper prefix first
RECURSIVE strLess(_, _)
strLess(s, t) ==
  IF t = << >> THEN FALSE
  ELSE IF s = << >> THEN TRUE
  ELSE IF Head(s) # Head(t) THEN Head(s) < Head(t)
  ELSE strLess(Tail(s), Tail(t))

\* crypto.subtle.digest('SHA-256', data)
sha256(data) == [digest |-> data]

\* the six groups of five digits made of the first bytes of the hash
formatDigits(hash) == [numbers |-> hash]

\* generateSafetyNumber with the local key always first
generateSafetyNumberUnordered(localIdentityKey, remoteIdentityKey) ==
  LET localStr == stringifyJwk(localIdentityKey)
      remoteStr == stringifyJwk(remoteIdentityKey)
      combined == localStr \o remoteStr
  IN  formatDigits(sha256(sha256(sha256(sha256(sha256(combined))))))

\* generateSafetyNumber: the lower string first, five rounds of SHA-256
generateSafetyNumber(localIdentityKey, remoteIdentityKey) ==
  LET localStr == stringifyJwk(localIdentityKey)
      remoteStr == stringifyJwk(remoteIdentityKey)
      first == IF strLess(localStr, remoteStr) THEN localStr ELSE remoteStr
      second == IF strLess(localStr, remoteStr) THEN remoteStr ELSE localStr
      combined == first \o second
  IN  formatDigits(sha256(sha256(sha256(sha256(sha256(combined))))))

\* the two identity keys of a conversation and what each side computed
NoSafety ==
  [done |-> FALSE, a |-> [x |-> <<1>>, y |-> <<1>>], b |-> [x |-> <<1>>, y |-> <<1>>],
   byA |-> formatDigits(sha256(<< >>)), byB |-> formatDigits(sha256(<< >>))]

\* the conversations of the responder and its decryptMessage calls in flight
Conversations == {"c1", "c2"}
CompleteCalls == {"d1", "d2"}
MaxCompletions == 3

\* sessions.get(conversationId) and the sessions store record of a conversation
NoConversation == [cached |-> FALSE, ratchet |-> NewRatchet, record |-> NoStored]

\* a decryptMessage call inside completeSession: the step it waits at, its
\* conversation and the one-time prekey pair it read
NoCompleteCall == [pc |-> "idle", conversation |-> "c1", found |-> FALSE, otpk |-> NoKeyPair]

\* the responder's sessions, its calls, and the session completions that
\* returned, in order: conversation, preamble key id, key id used (0 for
\* none), and whether decryptMessage went on to return the plaintext
NoCompletion ==
  [sessions |-> [v \in Conversations |-> NoConversation],
   calls |-> [c \in CompleteCalls |-> NoCompleteCall],
   started |-> 0,
   completed |-> << >>]

\* encryptMessage calls of one user on one conversation that may overlap
FirstCalls == {"e1", "e2"}

\* such a call: the await it is suspended at, the DoubleRatchet object it
\* holds in its local variable, and what fetchPreKeyBundle and
\* initiateSession returned to it
NoFirstCall ==
  [pc |-> "idle", object |-> NewRatchet, keyId |-> 0,
   ephemeralKey |-> NoJwk, sharedSecret |-> << >>]

\* the calls, the call whose object this.sessions holds for the conversation
\* ("none": no entry), and the x3dh preambles of the envelopes returned
NoFirsts ==
  [calls |-> [c \in FirstCalls |-> NoFirstCall],
   cached |-> "none",
   preambles |-> {}]

\* what a user keeps of a session it initiated: the first envelope and the
\* x3dh preamble attached to it
NoInitiation ==
  [done |-> FALSE, env |-> NoEnv, sharedSecret |-> << >>,
   preamble |-> [identityKey |-> NoJwk, ephemeralKey |-> NoJwk,
                 oneTimePreKeyId |-> 0]]

NoX3 ==
  [phase |-> "idle", ika |-> 0, ikb |-> 0, spk |-> 0, ek |-> 0,
   bundle |-> [identityKey |-> NoJwk,
               signedPreKey |-> [keyId |-> 0, publicKey |-> NoJwk,
                                 signature |-> ab2b64(signData(0, NoJwk))],
               oneTimePreKey |-> NoOTPK],
   signingKey |-> 0,
   spkOld |-> 0,
   initiated |-> [p \in Party |-> NoInitiation],
   localOtpks |-> [p \in Party |-> {}],
   handled |-> NoHandled,
   safety |-> NoSafety,
   life |-> NoLife,
   firsts |-> NoFirsts,
   opened |-> {},
   completion |-> NoCompletion,
   directory |-> [identity |-> TRUE, signedPreKey |-> TRUE],
   otpks |-> << >>,
   preamble |-> [identityKey |-> NoJwk, ephemeralKey |-> NoJwk,
                 oneTimePreKeyId |-> 0],
   ssA |-> << >>, ssB |-> << >>]

RatchetInit ==
  /\ ratchet = [p \in Party |->
                 IF p = "A"
                 THEN initAlice(NewRatchet, SharedSecret, SPKb, FirstRatchetKey)
                 ELSE initBob(NewRatchet, SharedSecret, SPKb)]
  /\ net = {}
  /\ emitted = {}
  /\ nextKey = FirstRatchetKey + 1
  /\ sent = [p \in Party |-> 0]
  /\ last = NoCall
  /\ refused = FALSE
  /\ tampered = 0

\* the rows as published: unused, not locked
ClaimInit ==
  /\ otpkRows = [id \in 1..NumOtpk |-> [used |-> FALSE, pending |-> FALSE, lockedBy |-> 0]]
  /\ claim = [c \in Claimers |-> NoClaim]
  /\ returned = {}

TaskInit ==
  /\ tasks = [t \in TaskIds |-> NoTask]
  /\ stored = [p \in Party |-> NoStored]

Init ==
  /\ RatchetInit
  /\ x3 = NoX3
  /\ ClaimInit
  /\ TaskInit

\* ------------------------------------------------------------------------
\* Operations on the ratchets
\* ------------------------------------------------------------------------
\* p calls encrypt; the transport keeps the envelope iff kept
encryptCall(p, kept) ==
  LET e == encrypt(ratchet[p], Msg(p, sent[p]))
      env == [to |-> Peer(p), header |-> e.header, ciphertext |-> e.ciphertext]
  IN  /\ ratchet' = [ratchet EXCEPT ![p] = e.state]
      /\ last' = [op |-> "enc", p |-> p, res |-> e.res, pt |-> Msg(p, sent[p]),
                  header |-> e.header, ciphertext |-> e.ciphertext,
                  before |-> ratchet[p], stepped |-> FALSE, genuine |-> TRUE,
                  clean |-> ~refused]
      /\ IF e.res = "ok"
         THEN /\ sent' = [sent EXCEPT ![p] = @ + 1]
              /\ emitted' = emitted \cup {env}
              /\ net' = IF kept THEN net \cup {env} ELSE net
         ELSE UNCHANGED <<sent, emitted, net>>
      /\ UNCHANGED <<nextKey, refused, tampered>>

Send(p, kept) ==
  /\ encryptCall(p, kept)
  /\ UNCHANGED notRatchetVars

\* p calls decrypt(header, ciphertext)
decryptCall(p, header, ciphertext, genuine) ==
  LET d == decrypt(ratchet[p], header, ciphertext, nextKey)
  IN  /\ d.stepped => nextKey < FirstRatchetKey + 1 + MaxKeys
      /\ ratchet' = [ratchet EXCEPT ![p] = d.state]
      /\ nextKey' = IF d.stepped THEN nextKey + 1 ELSE nextKey
      /\ last' = [op |-> "dec", p |-> p, res |-> d.res, pt |-> d.pt,
                  header |-> header, ciphertext |-> ciphertext,
                  before |-> ratchet[p], stepped |-> d.stepped,
                  genuine |-> genuine, clean |-> ~refused]
      /\ refused' = (refused \/ d.res # "ok")

Receive(p, header, ciphertext, genuine) ==
  /\ decryptCall(p, header, ciphertext, genuine)
  /\ UNCHANGED notRatchetVars

Encrypt(p) ==
  /\ sent[p] < MaxSent
  /\ Send(p, TRUE)

\* an envelope in flight reaches its addressee, once
Deliver(env) ==
  /\ Receive(env.to, env.header, env.ciphertext, TRUE)
  /\ net' = net \ {env}
  /\ UNCHANGED <<emitted, sent, tampered>>

\* the payload of an envelope in flight is altered on the way; the envelope
\* itself stays in flight
DeliverTampered(env) ==
  /\ tampered < MaxTampered
  /\ Receive(env.to, env.header, Garbage, FALSE)
  /\ tampered' = tampered + 1
  /\ UNCHANGED <<net, emitted, sent>>

Next ==
  \/ \E p \in Party : Encrypt(p)
  \/ \E env \in net : Deliver(env)

Spec == Init /\ [][Next]_vars

\* --- the same through the orchestrator, with sessions stored and loaded ---
\* encryptMessage with a cached session: encrypt, persistSession, return
EncryptMessage(p) ==
  /\ sent[p] < MaxSent
  /\ encryptCall(p, TRUE)
  /\ stored' = [stored EXCEPT ![p] = serialize(ratchet'[p])]
  /\ UNCHANGED <<x3, claimVars, tasks>>

\* decryptMessage with a cached session, of an envelope as it was sent or
\* with an altered payload: decrypt and persistSession; a throw is caught
\* before persistSession
DecryptMessage(env, ciphertext) ==
  /\ decryptCall(env.to, env.header, ciphertext, ciphertext = env.ciphertext)
  /\ stored' = IF last'.res = "ok"
               THEN [stored EXCEPT ![env.to] = serialize(ratchet'[env.to])]
               ELSE stored
  /\ net' = net \ {env}
  /\ IF ciphertext = env.ciphertext
     THEN UNCHANGED tampered
     ELSE tampered < MaxTampered /\ tampered' = tampered + 1
  /\ UNCHANGED <<emitted, sent>>
  /\ UNCHANGED <<x3, claimVars, tasks>>

\* p's ratchet is serialized into its session record and the live object is
\* replaced by one deserialized from the record
Reload(p) ==
  /\ ratchet[p].DHs # NoKeyPair
  /\ LET state == serialize(ratchet[p])
     IN  /\ stored' = [stored EXCEPT ![p] = state]
         /\ ratchet' = [ratchet EXCEPT ![p] = deserialize(state)]
  /\ last' = [NoCall EXCEPT !.op = "reload", !.p = p, !.res = "ok",
                            !.before = ratchet[p], !.clean = ~refused]
  /\ UNCHANGED <<net, emitted, nextKey, sent, refused, tampered>>
  /\ UNCHANGED <<x3, claimVars, tasks>>

NextReload ==
  \/ \E p \in Party : EncryptMessage(p)
  \/ \E env \in net : DecryptMessage(env, env.ciphertext)
  \/ \E p \in Party : Reload(p)

SpecReload == Init /\ [][NextReload]_vars

\* --- the same, over a transport that may alter payloads -------------------
NextAdv ==
  \/ \E p \in Party : Encrypt(p)
  \/ \E env \in net : Deliver(env)
  \/ \E env \in net : DeliverTampered(env)

SpecAdv == Init /\ [][NextAdv]_vars

\* --- one sending chain, long enough to pass MAX_SKIP --------------------
Kept(n) == n < MaxKept \/ n >= MAX_SKIP

EncryptChain ==
  /\ sent["A"] < MAX_SKIP + MaxOver
  /\ Send("A", Kept(ratchet["A"].Ns))

NextChain ==
  \/ EncryptChain
  \/ \E env \in net : Deliver(env)

SpecChain == Init /\ [][NextChain]_vars

\* --- X3DH agreement between an initiator and a responder ------------------
\* key pairs the agreement may be run with
InitiatorIdentities == {IKa, 11}
ResponderIdentities == {IKb, 12}
SignedPreKeys == {SPKb, 13}
EphemeralKeys == {EKa, 14}
\* the responder's one-time prekeys: key id :> key pair
ResponderOTPKs == (1 :> OPKb) @@ (2 :> 15)
\* signing key pairs: the responder's own and another party's
SigningKeys == {21, 22}

\* the signed prekey entry generatePreKeyBundle makes and uploads
signedPreKeyOf(signingKeyPair, spk) ==
  [keyId |-> 1, publicKey |-> exportKey(spk),
   signature |-> ab2b64(signData(signingKeyPair, exportKey(spk)))]

\* the bundle fetchPreKeyBundle builds, with the claimed one-time prekey id
\* (0: the claim returned none)
bundleOf(ikb, signedPreKey, otpkId) ==
  [identityKey |-> exportKey(ikb),
   signedPreKey |-> signedPreKey,
   oneTimePreKey |-> IF otpkId = 0 THEN NoOTPK
                     ELSE [keyId |-> otpkId,
                           publicKey |-> exportKey(ResponderOTPKs[otpkId])]]

X3Init ==
  /\ RatchetInit
  /\ ClaimInit
  /\ TaskInit
  /\ \E ika \in InitiatorIdentities, ikb \in ResponderIdentities,
        spk \in SignedPreKeys, ek \in EphemeralKeys,
        otpkId \in {0} \cup DOMAIN ResponderOTPKs, sk \in SigningKeys :
       x3 = [NoX3 EXCEPT !.phase = "fetched", !.ika = ika, !.ikb = ikb,
                         !.spk = spk, !.ek = ek, !.signingKey = sk,
                         !.bundle = bundleOf(ikb, signedPreKeyOf(sk, spk), otpkId),
                         !.otpks = ResponderOTPKs]

\* initiateSession: X3DH on the fetched bundle; encryptMessage attaches the
\* preamble to the first envelope
X3Initiate ==
  /\ x3.phase = "fetched"
  /\ LET r == initiateX3DH(x3.ika, x3.bundle, x3.ek)
     IN  x3' = [x3 EXCEPT !.phase = "initiated",
                          !.ssA = r.sharedSecret,
                          !.preamble = [identityKey |-> exportKey(x3.ika),
                                        ephemeralKey |-> r.ephemeralPublicKey,
                                        oneTimePreKeyId |-> r.usedOneTimePreKeyId]]
  /\ UNCHANGED ratchetVars
  /\ UNCHANGED claimVars
  /\ UNCHANGED taskVars

\* completeSession: look the one-time prekey up by the id of the preamble,
\* delete it, and run the responder side
X3Complete ==
  /\ x3.phase = "initiated"
  /\ LET id == x3.preamble.oneTimePreKeyId
         found == id # 0 /\ id \in DOMAIN x3.otpks
         bobOTPKP == IF found THEN x3.otpks[id] ELSE NoKeyPair
     IN  x3' = [x3 EXCEPT !.phase = "completed",
                          !.otpks = IF found THEN MapDelete(@, id) ELSE @,
                          !.ssB = completeX3DH(x3.ikb, x3.spk, bobOTPKP,
                                               x3.preamble.identityKey,
                                               x3.preamble.ephemeralKey)]
  /\ UNCHANGED ratchetVars
  /\ UNCHANGED claimVars
  /\ UNCHANGED taskVars

X3Next ==
  \/ X3Initiate
  \/ X3Complete

SpecX3DH == X3Init /\ [][X3Next]_vars

\* --- claim_one_time_prekey under concurrent initiators --------------------
\* The function body is one UPDATE whose row comes from
\*   SELECT id ... WHERE used = false ORDER BY created_at LIMIT 1
\*   FOR UPDATE SKIP LOCKED
\* run as one READ COMMITTED transaction per call.

\* variant: the sub-select without FOR UPDATE SKIP LOCKED
claimCandidatesNoLock(rows, snapshot, c) == snapshot

\* rows the locking sub-select can return: unused in the statement's
\* snapshot, not locked by another transaction (SKIP LOCKED), and still
\* unused when the row lock is taken
claimCandidates(rows, snapshot, c) ==
  {id \in snapshot : rows[id].lockedBy \in {0, c} /\ ~rows[id].used}

\* the call starts: the statement takes its snapshot of committed rows
ClaimBegin(c) ==
  /\ claim[c].pc = "idle"
  /\ claim[c].n < MaxClaims
  /\ claim' = [claim EXCEPT ![c] =
                 [@ EXCEPT !.pc = "select",
                           !.snapshot = {id \in DOMAIN otpkRows : ~otpkRows[id].used},
                           !.row = 0, !.skipped = FALSE]]
  /\ UNCHANGED <<otpkRows, returned>>
  /\ UNCHANGED ratchetVars
  /\ UNCHANGED x3
  /\ UNCHANGED taskVars

\* the sub-select locks one row, or finds none; rows of one INSERT share
\* their created_at, so any candidate may come first
ClaimSelect(c) ==
  /\ claim[c].pc = "select"
  /\ LET cand == claimCandidates(otpkRows, claim[c].snapshot, c)
         skipped == \E id \in claim[c].snapshot : otpkRows[id].lockedBy \notin {0, c}
     IN  IF cand = {}
         THEN /\ claim' = [claim EXCEPT ![c] = [@ EXCEPT !.pc = "update", !.row = 0,
                                                         !.skipped = skipped]]
              /\ UNCHANGED otpkRows
         ELSE \E id \in cand :
                /\ claim' = [claim EXCEPT ![c] = [@ EXCEPT !.pc = "update", !.row = id,
                                                           !.skipped = skipped]]
                /\ otpkRows' = [otpkRows EXCEPT ![id].lockedBy =
                                   IF @ = 0 THEN c ELSE @]
  /\ UNCHANGED returned
  /\ UNCHANGED ratchetVars
  /\ UNCHANGED x3
  /\ UNCHANGED taskVars

\* UPDATE ... SET used = true WHERE id = (row); it waits for the row lock
ClaimUpdate(c) ==
  /\ claim[c].pc = "update"
  /\ LET id == claim[c].row
     IN  IF id = 0
         THEN UNCHANGED otpkRows
         ELSE /\ otpkRows[id].lockedBy \in {0, c}
              /\ otpkRows' = [otpkRows EXCEPT ![id].lockedBy = c, ![id].pending = TRUE]
  /\ claim' = [claim EXCEPT ![c].pc = "commit"]
  /\ UNCHANGED returned
  /\ UNCHANGED ratchetVars
  /\ UNCHANGED x3
  /\ UNCHANGED taskVars

\* the function returns (key_id, public_key) or NULL and the transaction
\* commits; fetchPreKeyBundle puts the row into the bundle
ClaimCommit(c) ==
  /\ claim[c].pc = "commit"
  /\ LET id == claim[c].row
     IN  IF id = 0
         THEN UNCHANGED <<otpkRows, returned>>
         ELSE /\ otpkRows' = [otpkRows EXCEPT ![id] =
                                [used |-> TRUE, pending |-> FALSE, lockedBy |-> 0]]
              /\ returned' = returned \cup
                               {[claimer |-> c, round |-> claim[c].n, keyId |-> id,
                                 skipped |-> claim[c].skipped]}
  /\ claim' = [claim EXCEPT ![c] = [NoClaim EXCEPT !.n = claim[c].n + 1]]
  /\ UNCHANGED ratchetVars
  /\ UNCHANGED x3
  /\ UNCHANGED taskVars

ClaimNext ==
  \/ \E c \in Claimers : ClaimBegin(c)
  \/ \E c \in Claimers : ClaimSelect(c)
  \/ \E c \in Claimers : ClaimUpdate(c)
  \/ \E c \in Claimers : ClaimCommit(c)

SpecClaim == Init /\ [][ClaimNext]_vars

\* --- encryptMessage / decryptMessage of user A as interleaved tasks -------
\* User A's session is cached (sessions.get hits); its calls run as tasks
\* that yield at every await.  The peer B uses its ratchet one call at a time.
Me == "A"

InFlight(kind) == {t \in TaskIds : tasks[t].kind = kind}

\* a task finishes: the slot is free again
Finish(t) == tasks' = [tasks EXCEPT ![t] = NoTask]

TaskCall(op, t, res, pt) ==
  [op |-> op, p |-> Me, res |-> res, pt |-> pt, header |-> tasks[t].header,
   ciphertext |-> tasks[t].ct, before |-> NewRatchet, stepped |-> FALSE,
   genuine |-> tasks[t].kind = "enc" \/ tasks[t].ct = tasks[t].env.ciphertext,
   clean |-> ~refused]

\* the synchronous part of a call of skipMessageKeys(dhPublicJwk, until) in
\* state r: it returns at once, throws, or suspends in the first kdfCK
callSkip(task, r, dhPublicJwk, until, after) ==
  IF r.CKr = NoKey THEN [task EXCEPT !.pc = after]
  ELSE IF r.Nr + MAX_SKIP < until THEN [task EXCEPT !.pc = "threw"]
  ELSE IF r.Nr < until
       THEN [task EXCEPT !.pc = "skip", !.ck = r.CKr, !.until = until,
                         !.skipDh = dhPublicJwk, !.after = after]
       ELSE [task EXCEPT !.pc = after]

\* encryptMessage, lines 213 and 247; encrypt up to the await of kdfCK
EncStart(t, maxEnc) ==
  /\ tasks[t].kind = "none"
  /\ Cardinality(InFlight("enc")) < maxEnc
  /\ sent[Me] < MaxConcSent
  /\ ratchet[Me].CKs # NoKey
  /\ tasks' = [tasks EXCEPT ![t] =
                 [NoTask EXCEPT !.kind = "enc", !.pc = "e_kdf",
                                !.pt = Msg(Me, sent[Me]),
                                !.ck = ratchet[Me].CKs,
                                !.raced = InFlight("enc") \cup InFlight("dec") # {}]]
  /\ sent' = [sent EXCEPT ![Me] = @ + 1]
  /\ UNCHANGED <<ratchet, net, emitted, nextKey, last, refused, tampered, stored>>
  /\ UNCHANGED <<x3, claimVars>>

\* line 69, then aesEncrypt is awaited
EncAfterKdf(t) ==
  /\ tasks[t].pc = "e_kdf"
  /\ LET k == kdfCK(tasks[t].ck)
     IN  /\ ratchet' = [ratchet EXCEPT ![Me].CKs = k.chainKey]
         /\ tasks' = [tasks EXCEPT ![t].pc = "e_aes", ![t].mk = k.messageKey]
  /\ UNCHANGED <<net, emitted, nextKey, sent, last, refused, tampered, stored>>
  /\ UNCHANGED <<x3, claimVars>>

\* line 72 done; line 75 reads DHs and awaits exportKey
EncAfterAes(t) ==
  /\ tasks[t].pc = "e_aes"
  /\ tasks' = [tasks EXCEPT ![t].pc = "e_export",
                            ![t].ct = aesEncrypt(tasks[t].mk, tasks[t].pt),
                            ![t].dhs = ratchet[Me].DHs]
  /\ UNCHANGED <<ratchetVars, stored>>
  /\ UNCHANGED <<x3, claimVars>>

\* lines 74-81: the header reads PN and Ns now; Ns++
EncAfterExport(t) ==
  /\ tasks[t].pc = "e_export"
  /\ tasks' = [tasks EXCEPT ![t].pc = "ret",
                            ![t].header = [dh |-> exportKey(tasks[t].dhs),
                                           pn |-> ratchet[Me].PN,
                                           n |-> ratchet[Me].Ns]]
  /\ ratchet' = [ratchet EXCEPT ![Me].Ns = @ + 1]
  /\ UNCHANGED <<net, emitted, nextKey, sent, last, refused, tampered, stored>>
  /\ UNCHANGED <<x3, claimVars>>

\* decryptMessage, lines 260-264 and 283; decrypt up to its first await.
\* The envelope arrives with the payload it was sent with or an altered one.
DecStart(t, env, ciphertext, maxDec) ==
  /\ tasks[t].kind = "none"
  /\ Cardinality(InFlight("dec")) < maxDec
  /\ env \in net /\ env.to = Me
  /\ \/ ciphertext = env.ciphertext /\ UNCHANGED tampered
     \/ /\ ciphertext = Garbage
        /\ tampered < MaxConcTampered
        /\ tampered' = tampered + 1
  /\ LET r == ratchet[Me]
         header == env.header
         skippedKey == skippedKeyOf(header.dh, header.n)
         needsRatchet == \/ r.DHrJwk = NoJwk
                         \/ r.DHrJwk.x # header.dh.x
                         \/ r.DHrJwk.y # header.dh.y
         task == [NoTask EXCEPT !.kind = "dec", !.env = env, !.header = header,
                                !.ct = ciphertext,
                                !.raced = InFlight("enc") \cup InFlight("dec") # {}]
     IN  IF skippedKey \in DOMAIN r.MKSKIPPED
         THEN /\ ratchet' = [ratchet EXCEPT ![Me].MKSKIPPED = MapDelete(@, skippedKey)]
              /\ tasks' = [tasks EXCEPT ![t] =
                             [task EXCEPT !.pc = "d_aes", !.mk = r.MKSKIPPED[skippedKey]]]
         ELSE IF needsRatchet
         THEN /\ nextKey + Cardinality(InFlight("dec")) < FirstRatchetKey + 1 + MaxConcKeys
              /\ IF r.CKr # NoKey /\ r.DHrJwk # NoJwk
                 THEN /\ tasks' = [tasks EXCEPT ![t] =
                                     callSkip(task, r, r.DHrJwk, header.pn, "rat0")]
                      /\ UNCHANGED ratchet
                 ELSE /\ ratchet' = [ratchet EXCEPT ![Me].PN = r.Ns, ![Me].Ns = 0,
                                                    ![Me].Nr = 0, ![Me].DHrJwk = header.dh]
                      /\ tasks' = [tasks EXCEPT ![t] = [task EXCEPT !.pc = "rat1"]]
         ELSE /\ tasks' = [tasks EXCEPT ![t] =
                             callSkip(task, r, header.dh, header.n, "chain0")]
              /\ UNCHANGED ratchet
  /\ net' = net \ {env}
  /\ UNCHANGED <<emitted, nextKey, sent, last, refused, stored>>
  /\ UNCHANGED <<x3, claimVars>>

\* one pass of the loop of skipMessageKeys, resumed after kdfCK (145-148),
\* then the loop test and the next kdfCK call
SkipIter(t) ==
  /\ tasks[t].pc = "skip"
  /\ LET r == ratchet[Me]
         k == kdfCK(tasks[t].ck)
         key == skippedKeyOf(tasks[t].skipDh, r.Nr)
         r1 == [r EXCEPT !.CKr = k.chainKey,
                         !.MKSKIPPED = MapSet(@, key, k.messageKey),
                         !.Nr = r.Nr + 1]
     IN  /\ ratchet' = [ratchet EXCEPT ![Me] = r1]
         /\ tasks' = [tasks EXCEPT ![t] =
                        IF r1.Nr < tasks[t].until
                        THEN [@ EXCEPT !.ck = r1.CKr]
                        ELSE [@ EXCEPT !.pc = tasks[t].after]]
  /\ UNCHANGED <<net, emitted, nextKey, sent, last, refused, tampered, stored>>
  /\ UNCHANGED <<x3, claimVars>>

\* lines 108-112 after the skip of header.pn returned
Rat0(t) ==
  /\ tasks[t].pc = "rat0"
  /\ ratchet' = [ratchet EXCEPT ![Me].PN = ratchet[Me].Ns, ![Me].Ns = 0,
                                ![Me].Nr = 0, ![Me].DHrJwk = tasks[t].header.dh]
  /\ tasks' = [tasks EXCEPT ![t].pc = "rat1"]
  /\ UNCHANGED <<net, emitted, nextKey, sent, last, refused, tampered, stored>>
  /\ UNCHANGED <<x3, claimVars>>

\* line 112 assigns DHr; line 114 reads DHs and awaits performDH
Rat1(t) ==
  /\ tasks[t].pc = "rat1"
  /\ LET DHr == importDHPublicKey(tasks[t].header.dh)
     IN  /\ ratchet' = [ratchet EXCEPT ![Me].DHr = DHr]
         /\ tasks' = [tasks EXCEPT ![t].pc = "rat2", ![t].dhs = ratchet[Me].DHs,
                                   ![t].dhr = DHr]
  /\ UNCHANGED <<net, emitted, nextKey, sent, last, refused, tampered, stored>>
  /\ UNCHANGED <<x3, claimVars>>

\* line 115 reads RK and awaits kdfRK
Rat2(t) ==
  /\ tasks[t].pc = "rat2"
  /\ tasks' = [tasks EXCEPT ![t].pc = "rat3",
                            ![t].dhOut = performDH(tasks[t].dhs, tasks[t].dhr),
                            ![t].rk = ratchet[Me].RK]
  /\ UNCHANGED <<ratchetVars, stored>>
  /\ UNCHANGED <<x3, claimVars>>

\* lines 116-117; line 120 awaits generateDHKeyPair
Rat3(t) ==
  /\ tasks[t].pc = "rat3"
  /\ LET k == kdfRK(tasks[t].rk, tasks[t].dhOut)
     IN  ratchet' = [ratchet EXCEPT ![Me].RK = k.rootKey, ![Me].CKr = k.chainKey]
  /\ tasks' = [tasks EXCEPT ![t].pc = "rat4"]
  /\ UNCHANGED <<net, emitted, nextKey, sent, last, refused, tampered, stored>>
  /\ UNCHANGED <<x3, claimVars>>

\* line 120 assigns the fresh DHs; line 121 awaits performDH
Rat4(t) ==
  /\ tasks[t].pc = "rat4"
  /\ ratchet' = [ratchet EXCEPT ![Me].DHs = nextKey]
  /\ nextKey' = nextKey + 1
  /\ tasks' = [tasks EXCEPT ![t].pc = "rat5", ![t].dhs = nextKey,
                            ![t].dhr = ratchet[Me].DHr]
  /\ UNCHANGED <<net, emitted, sent, last, refused, tampered, stored>>
  /\ UNCHANGED <<x3, claimVars>>

\* line 122 reads RK and awaits kdfRK
Rat5(t) ==
  /\ tasks[t].pc = "rat5"
  /\ tasks' = [tasks EXCEPT ![t].pc = "rat6",
                            ![t].dhOut = performDH(tasks[t].dhs, tasks[t].dhr),
                            ![t].rk = ratchet[Me].RK]
  /\ UNCHANGED <<ratchetVars, stored>>
  /\ UNCHANGED <<x3, claimVars>>

\* lines 123-124, then the call of skipMessageKeys at line 128
Rat6(t) ==
  /\ tasks[t].pc = "rat6"
  /\ LET k == kdfRK(tasks[t].rk, tasks[t].dhOut)
         r1 == [ratchet[Me] EXCEPT !.RK = k.rootKey, !.CKs = k.chainKey]
     IN  /\ ratchet' = [ratchet EXCEPT ![Me] = r1]
         /\ tasks' = [tasks EXCEPT ![t] =
                        callSkip(@, r1, tasks[t].header.dh, tasks[t].header.n, "chain0")]
  /\ UNCHANGED <<net, emitted, nextKey, sent, last, refused, tampered, stored>>
  /\ UNCHANGED <<x3, claimVars>>

\* lines 130-131: kdfCK of the receiving chain key is awaited
Chain0(t) ==
  /\ tasks[t].pc = "chain0"
  /\ tasks' = [tasks EXCEPT ![t] =
                 IF ratchet[Me].CKr = NoKey THEN [@ EXCEPT !.pc = "threw"]
                 ELSE [@ EXCEPT !.pc = "chain1", !.ck = ratchet[Me].CKr]]
  /\ UNCHANGED <<ratchetVars, stored>>
  /\ UNCHANGED <<x3, claimVars>>

\* lines 132-133; aesDecrypt is awaited
Chain1(t) ==
  /\ tasks[t].pc = "chain1"
  /\ LET k == kdfCK(tasks[t].ck)
     IN  /\ ratchet' = [ratchet EXCEPT ![Me].CKr = k.chainKey, ![Me].Nr = @ + 1]
         /\ tasks' = [tasks EXCEPT ![t].pc = "d_aes", ![t].mk = k.messageKey]
  /\ UNCHANGED <<net, emitted, nextKey, sent, last, refused, tampered, stored>>
  /\ UNCHANGED <<x3, claimVars>>

\* aesDecrypt settles (lines 92-93, 135-136): decrypt returns or throws
DecAfterAes(t) ==
  /\ tasks[t].pc = "d_aes"
  /\ tasks' = [tasks EXCEPT ![t].pc =
                 IF aesDecrypt(tasks[t].mk, tasks[t].ct) = AuthFail
                 THEN "threw" ELSE "ret"]
  /\ UNCHANGED <<ratchetVars, stored>>
  /\ UNCHANGED <<x3, claimVars>>

\* decrypt threw: the catch of decryptMessage returns the placeholder
DecThrew(t) ==
  /\ tasks[t].pc = "threw"
  /\ last' = TaskCall("tdec", t, "Undecryptable", AuthFail)
  /\ refused' = TRUE
  /\ Finish(t)
  /\ UNCHANGED <<ratchet, net, emitted, nextKey, sent, tampered, stored>>
  /\ UNCHANGED <<x3, claimVars>>

\* persistSession: serialize() reads DHs.publicKey and awaits exportKey
SerPub(t) ==
  /\ tasks[t].pc = "ret"
  /\ tasks' = [tasks EXCEPT ![t].pc = "ser_priv", ![t].serPub = ratchet[Me].DHs]
  /\ UNCHANGED <<ratchetVars, stored>>
  /\ UNCHANGED <<x3, claimVars>>

\* serialize() reads DHs.privateKey and awaits exportKey
SerPriv(t) ==
  /\ tasks[t].pc = "ser_priv"
  /\ tasks' = [tasks EXCEPT ![t].pc = "ser_rest", ![t].serPriv = ratchet[Me].DHs]
  /\ UNCHANGED <<ratchetVars, stored>>
  /\ UNCHANGED <<x3, claimVars>>

\* the rest of the object literal is read at once; saveSession is awaited
SerRest(t) ==
  /\ tasks[t].pc = "ser_rest"
  /\ tasks' = [tasks EXCEPT ![t].pc = "save",
                            ![t].rec = serializeWith(ratchet[Me], tasks[t].serPub,
                                                     tasks[t].serPriv)]
  /\ UNCHANGED <<ratchetVars, stored>>
  /\ UNCHANGED <<x3, claimVars>>

\* variant: the call returns without the record having been written
SaveNotWritten(t) ==
  /\ tasks[t].pc = "save"
  /\ UNCHANGED stored
  /\ IF tasks[t].kind = "enc"
     THEN LET env == [to |-> Peer(Me), header |-> tasks[t].header,
                      ciphertext |-> tasks[t].ct]
          IN  /\ emitted' = emitted \cup {env}
              /\ net' = net \cup {env}
              /\ last' = TaskCall("tenc", t, "ok", tasks[t].pt)
     ELSE /\ last' = TaskCall("tdec", t, "ok", aesDecrypt(tasks[t].mk, tasks[t].ct))
          /\ UNCHANGED <<emitted, net>>
  /\ Finish(t)
  /\ UNCHANGED <<ratchet, nextKey, sent, refused, tampered>>
  /\ UNCHANGED <<x3, claimVars>>

\* the record is written and the call returns: encryptMessage the envelope,
\* decryptMessage the plaintext
Save(t) ==
  /\ tasks[t].pc = "save"
  /\ stored' = [stored EXCEPT ![Me] = tasks[t].rec]
  /\ IF tasks[t].kind = "enc"
     THEN LET env == [to |-> Peer(Me), header |-> tasks[t].header,
                      ciphertext |-> tasks[t].ct]
          IN  /\ emitted' = emitted \cup {env}
              /\ net' = net \cup {env}
              /\ last' = TaskCall("tenc", t, "ok", tasks[t].pt)
     ELSE /\ last' = TaskCall("tdec", t, "ok", aesDecrypt(tasks[t].mk, tasks[t].ct))
          /\ UNCHANGED <<emitted, net>>
  /\ Finish(t)
  /\ UNCHANGED <<ratchet, nextKey, sent, refused, tampered>>
  /\ UNCHANGED <<x3, claimVars>>

\* the peer's calls, one at a time
PeerEncrypt ==
  /\ sent[Peer(Me)] < MaxConcSent
  /\ Send(Peer(Me), TRUE)

PeerDeliver(env) ==
  /\ env.to = Peer(Me)
  /\ Deliver(env)

TaskStep(t) ==
  \/ EncAfterKdf(t)
  \/ EncAfterAes(t)
  \/ EncAfterExport(t)
  \/ SkipIter(t)
  \/ Rat0(t)
  \/ Rat1(t)
  \/ Rat2(t)
  \/ Rat3(t)
  \/ Rat4(t)
  \/ Rat5(t)
  \/ Rat6(t)
  \/ Chain0(t)
  \/ Chain1(t)
  \/ DecAfterAes(t)
  \/ DecThrew(t)
  \/ SerPub(t)
  \/ SerPriv(t)
  \/ SerRest(t)
  \/ Save(t)

\* two encryptMessage calls may overlap; decryptMessage calls run alone
NextEncEnc ==
  \/ \E t \in TaskIds : EncStart(t, 2)
  \/ \E t \in TaskIds : \E env \in net : \E ciphertext \in {env.ciphertext, Garbage} :
        InFlight("enc") = {} /\ DecStart(t, env, ciphertext, 1)
  \/ \E t \in TaskIds : TaskStep(t)
  \/ PeerEncrypt
  \/ \E env \in net : PeerDeliver(env)

SpecEncEnc == Init /\ [][NextEncEnc]_vars

\* one encryptMessage call and one decryptMessage call may overlap
NextEncDec ==
  \/ \E t \in TaskIds : EncStart(t, 1)
  \/ \E t \in TaskIds : \E env \in net : \E ciphertext \in {env.ciphertext, Garbage} :
        DecStart(t, env, ciphertext, 1)
  \/ \E t \in TaskIds : TaskStep(t)
  \/ PeerEncrypt
  \/ \E env \in net : PeerDeliver(env)

SpecEncDec == Init /\ [][NextEncDec]_vars

\* --- crash and restart of user A's client ---------------------------------
\* Both sides hold the session of the conversation, cached and stored: A's
\* first envelope has been returned and B has decrypted it.
FirstEnvelope ==
  encrypt(initAlice(NewRatchet, SharedSecret, SPKb, FirstRatchetKey), Msg(Me, 0))

EstablishedInit ==
  LET e == FirstEnvelope
      d == decrypt(initBob(NewRatchet, SharedSecret, SPKb), e.header, e.ciphertext,
                   FirstRatchetKey + 1)
  IN  /\ ratchet = [p \in Party |-> IF p = Me THEN e.state ELSE d.state]
      /\ stored = [p \in Party |-> serialize(IF p = Me THEN e.state ELSE d.state)]
      /\ emitted = {[to |-> Peer(Me), header |-> e.header, ciphertext |-> e.ciphertext]}
      /\ net = {}
      /\ nextKey = FirstRatchetKey + 2
      /\ sent = [p \in Party |-> IF p = Me THEN 1 ELSE 0]
      /\ last = NoCall
      /\ refused = FALSE
      /\ tampered = 0
      /\ tasks = [t \in TaskIds |-> NoTask]
      /\ x3 = NoX3
      /\ ClaimInit

\* the process dies with a call suspended at an await and is started again:
\* the call never returns, the session cache is empty, and the next call
\* loads the session with getSession and deserialize.  The envelope a
\* decryptMessage call was working on is still on the server; the plaintext
\* of an encryptMessage call will be submitted again.
Crash ==
  /\ InFlight("enc") \cup InFlight("dec") # {}
  /\ tasks' = [t \in TaskIds |-> NoTask]
  /\ ratchet' = [ratchet EXCEPT ![Me] = deserialize(stored[Me])]
  /\ net' = net \cup {[tasks[t].env EXCEPT !.to = Me] : t \in InFlight("dec")}
  /\ sent' = [sent EXCEPT ![Me] = @ - Cardinality(InFlight("enc"))]
  /\ last' = [NoCall EXCEPT !.op = "crash", !.p = Me, !.before = ratchet[Me],
                            !.clean = ~refused]
  /\ UNCHANGED <<emitted, nextKey, refused, tampered, stored>>
  /\ UNCHANGED <<x3, claimVars>>

\* user A's calls run one at a time, each in the same slot
SerialTask == "t1"

NextCrash ==
  \/ EncStart(SerialTask, 1)
  \/ \E env \in net : \E ciphertext \in {env.ciphertext, Garbage} :
        DecStart(SerialTask, env, ciphertext, 1)
  \/ TaskStep(SerialTask)
  \/ Crash
  \/ PeerEncrypt
  \/ \E env \in net : PeerDeliver(env)

SpecCrash == EstablishedInit /\ [][NextCrash]_vars

\* --- both users' calls, one at a time, on established sessions ------------
NextSession ==
  \/ \E p \in Party : EncryptMessage(p)
  \/ \E env \in net : \E ciphertext \in {env.ciphertext, Garbage} :
        DecryptMessage(env, ciphertext)

SpecSession == EstablishedInit /\ [][NextSession]_vars

\* --- the first message of a conversation ----------------------------------
\* Neither side has a session.  The directory holds the responder's identity
\* key, signing key and one-time prekeys, and serves some signed prekey row
\* (public key and signature) for the responder.
FirstInit ==
  /\ ratchet = [p \in Party |-> NewRatchet]
  /\ net = {}
  /\ emitted = {}
  /\ nextKey = FirstRatchetKey
  /\ sent = [p \in Party |-> 0]
  /\ last = NoCall
  /\ refused = FALSE
  /\ tampered = 0
  /\ ClaimInit
  /\ TaskInit
  /\ \E ikb \in ResponderIdentities, spk \in SignedPreKeys, sk \in SigningKeys,
        served \in SignedPreKeys, signed \in SignedPreKeys, signer \in SigningKeys,
        otpkId \in {0} \cup DOMAIN ResponderOTPKs :
       x3 = [NoX3 EXCEPT
               !.phase = "published", !.ika = IKa, !.ikb = ikb, !.spk = spk,
               !.ek = EKa, !.signingKey = sk,
               !.bundle = bundleOf(ikb,
                            [signedPreKeyOf(signer, signed) EXCEPT
                               !.publicKey = exportKey(served)],
                            otpkId),
               !.otpks = ResponderOTPKs]

\* initiateSession on the bundle fetchPreKeyBundle returned
initiateSession(identityKeyPair, bundle, ephemeralKeyPair, freshKeyPair) ==
  LET r == initiateX3DH(identityKeyPair, bundle, ephemeralKeyPair)
      bobSignedPreKey == importDHPublicKey(bundle.signedPreKey.publicKey)
  IN  [ratchet |-> initAlice(NewRatchet, r.sharedSecret, bobSignedPreKey, freshKeyPair),
       sharedSecret |-> r.sharedSecret,
       ephemeralPublicKey |-> r.ephemeralPublicKey,
       oneTimePreKeyId |-> r.usedOneTimePreKeyId]

\* encryptMessage with no session cached or stored: initiateSession, encrypt,
\* attach the x3dh preamble, persistSession, return the envelope
EncryptFirst ==
  /\ x3.phase = "published"
  /\ ratchet[Me] = NewRatchet
  /\ stored[Me] = NoStored
  /\ LET result == initiateSession(x3.ika, x3.bundle, x3.ek, nextKey)
         e == encrypt(result.ratchet, Msg(Me, 0))
         env == [to |-> Peer(Me), header |-> e.header, ciphertext |-> e.ciphertext]
     IN  /\ ratchet' = [ratchet EXCEPT ![Me] = e.state]
         /\ stored' = [stored EXCEPT ![Me] = serialize(e.state)]
         /\ emitted' = emitted \cup {env}
         /\ net' = net \cup {env}
         /\ x3' = [x3 EXCEPT !.phase = "initiated",
                             !.ssA = result.sharedSecret,
                             !.preamble =
                               [identityKey |-> exportKey(x3.ika),
                                ephemeralKey |-> result.ephemeralPublicKey,
                                oneTimePreKeyId |-> result.oneTimePreKeyId]]
         /\ last' = [NoCall EXCEPT !.op = "first", !.p = Me, !.res = "ok",
                                   !.pt = Msg(Me, 0), !.header = e.header,
                                   !.ciphertext = e.ciphertext]
  /\ nextKey' = nextKey + 1
  /\ sent' = [sent EXCEPT ![Me] = 1]
  /\ UNCHANGED <<refused, tampered, tasks, claimVars>>

\* decryptMessage of the first envelope at the responder: completeSession
\* with its own latest signed prekey, decrypt, persistSession; a throw is
\* caught and leaves the session cached but not stored
DecryptFirst(env) ==
  /\ x3.phase = "initiated"
  /\ env \in net
  /\ env.to = Peer(Me)
  /\ ratchet[Peer(Me)] = NewRatchet
  /\ LET id == x3.preamble.oneTimePreKeyId
         found == id # 0 /\ id \in DOMAIN x3.otpks
         bobOTPKP == IF found THEN x3.otpks[id] ELSE NoKeyPair
         sharedSecret == completeX3DH(x3.ikb, x3.spk, bobOTPKP,
                                      x3.preamble.identityKey,
                                      x3.preamble.ephemeralKey)
         r == initBob(NewRatchet, sharedSecret, x3.spk)
         d == decrypt(r, env.header, env.ciphertext, nextKey)
     IN  /\ x3' = [x3 EXCEPT !.phase = "completed",
                             !.otpks = IF found THEN MapDelete(@, id) ELSE @,
                             !.ssB = sharedSecret]
         /\ ratchet' = [ratchet EXCEPT ![Peer(Me)] = d.state]
         /\ stored' = IF d.res = "ok"
                      THEN [stored EXCEPT ![Peer(Me)] = serialize(d.state)]
                      ELSE stored
         /\ refused' = (refused \/ d.res # "ok")
         /\ nextKey' = IF d.stepped THEN nextKey + 1 ELSE nextKey
         /\ last' = [op |-> "dec", p |-> Peer(Me), res |-> d.res, pt |-> d.pt,
                     header |-> env.header, ciphertext |-> env.ciphertext,
                     before |-> r, stepped |-> d.stepped, genuine |-> TRUE,
                     clean |-> ~refused]
  /\ net' = net \ {env}
  /\ UNCHANGED <<emitted, sent, tampered, tasks, claimVars>>

NextFirst ==
  \/ EncryptFirst
  \/ \E env \in net : DecryptFirst(env)

SpecFirst == FirstInit /\ [][NextFirst]_vars

\* --- the first envelope at the responder, with a crash in the middle ------
\* decryptMessage, completeSession up to the await after deleteOneTimePreKey:
\* the one-time prekey named by the preamble is read from the local store
\* and, if found, deleted from it
CompleteBegin(env) ==
  /\ x3.phase = "initiated"
  /\ env \in net
  /\ env.to = Peer(Me)
  /\ tasks[SerialTask].kind = "none"
  /\ ratchet[Peer(Me)] = NewRatchet
  /\ stored[Peer(Me)] = NoStored
  /\ LET id == x3.preamble.oneTimePreKeyId
         found == id # 0 /\ id \in DOMAIN x3.otpks
     IN  /\ x3' = [x3 EXCEPT !.otpks = IF found THEN MapDelete(@, id) ELSE @]
         /\ tasks' = [tasks EXCEPT ![SerialTask] =
                        [NoTask EXCEPT !.kind = "first", !.pc = "completing",
                                       !.env = env,
                                       !.dhs = IF found THEN x3.otpks[id]
                                               ELSE NoKeyPair]]
  /\ net' = net \ {env}
  /\ UNCHANGED <<ratchet, emitted, nextKey, sent, last, refused, tampered, stored>>
  /\ UNCHANGED claimVars

\* the rest of the call: completeX3DH, initBob, sessions.set, decrypt,
\* persistSession; a throw of decrypt is caught before persistSession
CompleteFinish ==
  /\ tasks[SerialTask].pc = "completing"
  /\ LET env == tasks[SerialTask].env
         sharedSecret == completeX3DH(x3.ikb, x3.spk, tasks[SerialTask].dhs,
                                      x3.preamble.identityKey,
                                      x3.preamble.ephemeralKey)
         r == initBob(NewRatchet, sharedSecret, x3.spk)
         d == decrypt(r, env.header, env.ciphertext, nextKey)
     IN  /\ x3' = [x3 EXCEPT !.phase = "completed", !.ssB = sharedSecret]
         /\ ratchet' = [ratchet EXCEPT ![Peer(Me)] = d.state]
         /\ stored' = IF d.res = "ok"
                      THEN [stored EXCEPT ![Peer(Me)] = serialize(d.state)]
                      ELSE stored
         /\ refused' = (refused \/ d.res # "ok")
         /\ nextKey' = IF d.stepped THEN nextKey + 1 ELSE nextKey
         /\ last' = [op |-> "dec", p |-> Peer(Me), res |-> d.res, pt |-> d.pt,
                     header |-> env.header, ciphertext |-> env.ciphertext,
                     before |-> r, stepped |-> d.stepped, genuine |-> TRUE,
                     clean |-> ~refused]
  /\ tasks' = [tasks EXCEPT ![SerialTask] = NoTask]
  /\ UNCHANGED <<net, emitted, sent, tampered>>
  /\ UNCHANGED claimVars

\* the responder's process dies before persistSession and is started again:
\* nothing is cached, the key store is what the call left, and the envelope
\* is processed again
CrashFirst ==
  /\ tasks[SerialTask].pc = "completing"
  /\ last.op # "crash"
  /\ net' = net \cup {tasks[SerialTask].env}
  /\ tasks' = [tasks EXCEPT ![SerialTask] = NoTask]
  /\ last' = [NoCall EXCEPT !.op = "crash", !.p = Peer(Me)]
  /\ UNCHANGED <<ratchet, emitted, nextKey, sent, refused, tampered, stored>>
  /\ UNCHANGED <<x3, claimVars>>

NextFirstCrash ==
  \/ EncryptFirst
  \/ \E env \in net : CompleteBegin(env)
  \/ CompleteFinish
  \/ CrashFirst

SpecFirstCrash == FirstInit /\ [][NextFirstCrash]_vars

\* --- the first envelope, with a signed prekey rotation on the way ---------
\* rotatePreKeysIfNeeded at the responder, after the initiator fetched the
\* bundle: a new signed prekey becomes the latest row of the directory, the
\* previous one stays in the local store
RotateSignedPreKey ==
  /\ x3.phase = "initiated"
  /\ x3.spkOld = 0
  /\ x3' = [x3 EXCEPT !.spkOld = x3.spk, !.spk = nextKey]
  /\ nextKey' = nextKey + 1
  /\ UNCHANGED <<ratchet, net, emitted, sent, last, refused, tampered>>
  /\ UNCHANGED <<claimVars, taskVars>>

NextRotate ==
  \/ EncryptFirst
  \/ RotateSignedPreKey
  \/ \E env \in net : DecryptFirst(env)

SpecRotate == FirstInit /\ [][NextRotate]_vars

\* --- two initialized users, each of whom may send first -------------------
\* the key pairs generateAndUploadKeys made for each user, and the ephemeral
\* key pair of the session the user initiates
IdentityOf == [A |-> IKa, B |-> IKb]
SigningKeyOf == [A |-> 22, B |-> 21]
SignedPreKeyOf == [A |-> 23, B |-> SPKb]
OneTimePreKeyOf == [A |-> 25, B |-> OPKb]
EphemeralOf == [A |-> EKa, B |-> 24]

\* the bundle fetchPreKeyBundle returns for user p, one-time prekey claimed
bundleFor(p) ==
  [identityKey |-> exportKey(IdentityOf[p]),
   signedPreKey |-> signedPreKeyOf(SigningKeyOf[p], SignedPreKeyOf[p]),
   oneTimePreKey |-> [keyId |-> 1, publicKey |-> exportKey(OneTimePreKeyOf[p])]]

BothInit ==
  /\ ratchet = [p \in Party |-> NewRatchet]
  /\ stored = [p \in Party |-> NoStored]
  /\ net = {}
  /\ emitted = {}
  /\ nextKey = FirstRatchetKey
  /\ sent = [p \in Party |-> 0]
  /\ last = NoCall
  /\ refused = FALSE
  /\ tampered = 0
  /\ tasks = [t \in TaskIds |-> NoTask]
  /\ ClaimInit
  /\ x3 = [NoX3 EXCEPT !.localOtpks = [p \in Party |-> {OneTimePreKeyOf[p]}]]

\* encryptMessage by p with no session: initiateSession towards the peer,
\* encrypt, attach the preamble, persistSession
SendFirst(p) ==
  /\ ratchet[p] = NewRatchet
  /\ stored[p] = NoStored
  /\ sent[p] < MaxSent
  /\ LET result == initiateSession(IdentityOf[p], bundleFor(Peer(p)),
                                   EphemeralOf[p], nextKey)
         e == encrypt(result.ratchet, Msg(p, sent[p]))
         env == [to |-> Peer(p), header |-> e.header, ciphertext |-> e.ciphertext]
     IN  /\ ratchet' = [ratchet EXCEPT ![p] = e.state]
         /\ stored' = [stored EXCEPT ![p] = serialize(e.state)]
         /\ emitted' = emitted \cup {env}
         /\ net' = net \cup {env}
         /\ x3' = [x3 EXCEPT !.initiated[p] =
                     [done |-> TRUE, env |-> env,
                      sharedSecret |-> result.sharedSecret,
                      preamble |-> [identityKey |-> exportKey(IdentityOf[p]),
                                    ephemeralKey |-> result.ephemeralPublicKey,
                                    oneTimePreKeyId |-> result.oneTimePreKeyId]]]
         /\ last' = [NoCall EXCEPT !.op = "first", !.p = p, !.res = "ok",
                                   !.pt = Msg(p, sent[p]), !.header = e.header,
                                   !.ciphertext = e.ciphertext]
  /\ nextKey' = nextKey + 1
  /\ sent' = [sent EXCEPT ![p] = @ + 1]
  /\ UNCHANGED <<refused, tampered, tasks, claimVars>>

\* encryptMessage by p with a cached session
SendNext(p) ==
  /\ ratchet[p] # NewRatchet
  /\ EncryptMessage(p)

\* the envelope is the oldest one in flight to its addressee
Oldest(env) ==
  \A other \in net : other.to = env.to => env.ciphertext.pt <= other.ciphertext.pt

\* decryptMessage, lines 264-285: a cached session is used whatever the
\* envelope carries
ReceiveCached(env) ==
  /\ Oldest(env)
  /\ ratchet[env.to] # NewRatchet
  /\ DecryptMessage(env, env.ciphertext)

\* decryptMessage with no session, of an envelope carrying a preamble:
\* completeSession with the own key pairs, decrypt, persistSession
ReceiveFirst(env) ==
  /\ Oldest(env)
  /\ ratchet[env.to] = NewRatchet
  /\ stored[env.to] = NoStored
  /\ x3.initiated[Peer(env.to)].done
  /\ env = x3.initiated[Peer(env.to)].env
  /\ LET p == env.to
         preamble == x3.initiated[Peer(p)].preamble
         found == preamble.oneTimePreKeyId # 0
                  /\ OneTimePreKeyOf[p] \in x3.localOtpks[p]
         sharedSecret == completeX3DH(IdentityOf[p], SignedPreKeyOf[p],
                                      IF found THEN OneTimePreKeyOf[p] ELSE NoKeyPair,
                                      preamble.identityKey, preamble.ephemeralKey)
         r == initBob(NewRatchet, sharedSecret, SignedPreKeyOf[p])
         d == decrypt(r, env.header, env.ciphertext, nextKey)
     IN  /\ x3' = [x3 EXCEPT !.localOtpks[p] =
                     IF found THEN @ \ {OneTimePreKeyOf[p]} ELSE @]
         /\ ratchet' = [ratchet EXCEPT ![p] = d.state]
         /\ stored' = IF d.res = "ok"
                      THEN [stored EXCEPT ![p] = serialize(d.state)]
                      ELSE stored
         /\ refused' = (refused \/ d.res # "ok")
         /\ nextKey' = IF d.stepped THEN nextKey + 1 ELSE nextKey
         /\ last' = [op |-> "dec", p |-> p, res |-> d.res, pt |-> d.pt,
                     header |-> env.header, ciphertext |-> env.ciphertext,
                     before |-> r, stepped |-> d.stepped, genuine |-> TRUE,
                     clean |-> ~refused]
  /\ net' = net \ {env}
  /\ UNCHANGED <<emitted, sent, tampered, tasks, claimVars>>

NextBoth ==
  \/ \E p \in Party : SendFirst(p)
  \/ \E p \in Party : SendNext(p)
  \/ \E env \in net : ReceiveCached(env)
  \/ \E env \in net : ReceiveFirst(env)

SpecBoth == BothInit /\ [][NextBoth]_vars

\* --- encryptMessage when saveSession may reject ---------------------------
\* persistSession: the record is written, or saveSession rejects
persistSession(p, r, storageOk) ==
  IF storageOk THEN [stored EXCEPT ![p] = serialize(r)] ELSE stored

\* encryptMessage by Me with no session: initiateSession caches the ratchet,
\* encrypt advances it, and the envelope with the preamble is returned only
\* if persistSession did not throw
EncryptMessageNew(storageOk) ==
  /\ ratchet[Me] = NewRatchet
  /\ stored[Me] = NoStored
  /\ sent[Me] < MaxSent
  /\ LET result == initiateSession(IdentityOf[Me], bundleFor(Peer(Me)),
                                   EphemeralOf[Me], nextKey)
         e == encrypt(result.ratchet, Msg(Me, sent[Me]))
         env == [to |-> Peer(Me), header |-> e.header, ciphertext |-> e.ciphertext]
     IN  /\ ratchet' = [ratchet EXCEPT ![Me] = e.state]
         /\ stored' = persistSession(Me, e.state, storageOk)
         /\ IF storageOk
            THEN /\ emitted' = emitted \cup {env}
                 /\ net' = net \cup {env}
                 /\ x3' = [x3 EXCEPT !.initiated[Me] =
                             [done |-> TRUE, env |-> env,
                              sharedSecret |-> result.sharedSecret,
                              preamble |-> [identityKey |-> exportKey(IdentityOf[Me]),
                                            ephemeralKey |-> result.ephemeralPublicKey,
                                            oneTimePreKeyId |-> result.oneTimePreKeyId]]]
            ELSE UNCHANGED <<emitted, net, x3>>
         /\ last' = [NoCall EXCEPT !.op = "first", !.p = Me,
                                   !.res = IF storageOk THEN "ok" ELSE "StorageFailed",
                                   !.pt = Msg(Me, sent[Me]), !.header = e.header,
                                   !.ciphertext = e.ciphertext]
  /\ nextKey' = nextKey + 1
  /\ sent' = [sent EXCEPT ![Me] = @ + 1]
  /\ UNCHANGED <<refused, tampered, tasks, claimVars>>

\* encryptMessage by p with a cached session: encrypt, persistSession, and
\* the envelope without a preamble is returned if persistSession did not throw
EncryptMessageCached(p, storageOk) ==
  /\ ratchet[p] # NewRatchet
  /\ sent[p] < MaxSent
  /\ LET e == encrypt(ratchet[p], Msg(p, sent[p]))
         env == [to |-> Peer(p), header |-> e.header, ciphertext |-> e.ciphertext]
     IN  /\ ratchet' = [ratchet EXCEPT ![p] = e.state]
         /\ stored' = persistSession(p, e.state, storageOk)
         /\ IF storageOk
            THEN /\ emitted' = emitted \cup {env}
                 /\ net' = net \cup {env}
            ELSE UNCHANGED <<emitted, net>>
         /\ last' = [op |-> "enc", p |-> p,
                     res |-> IF storageOk THEN "ok" ELSE "StorageFailed",
                     pt |-> Msg(p, sent[p]), header |-> e.header,
                     ciphertext |-> e.ciphertext, before |-> ratchet[p],
                     stepped |-> FALSE, genuine |-> TRUE, clean |-> ~refused]
  /\ sent' = [sent EXCEPT ![p] = @ + 1]
  /\ UNCHANGED <<nextKey, refused, tampered, x3, tasks, claimVars>>

\* decryptMessage with no session, of an envelope without a preamble: the
\* no-session placeholder is returned
ReceiveNoSession(env) ==
  /\ Oldest(env)
  /\ ratchet[env.to] = NewRatchet
  /\ stored[env.to] = NoStored
  /\ ~(x3.initiated[Peer(env.to)].done /\ env = x3.initiated[Peer(env.to)].env)
  /\ last' = [op |-> "dec", p |-> env.to, res |-> "NoSession", pt |-> AuthFail,
              header |-> env.header, ciphertext |-> env.ciphertext,
              before |-> ratchet[env.to], stepped |-> FALSE, genuine |-> TRUE,
              clean |-> ~refused]
  /\ net' = net \ {env}
  /\ UNCHANGED <<ratchet, stored, emitted, sent, nextKey, refused, tampered,
                 x3, tasks, claimVars>>

NextStorage ==
  \/ \E storageOk \in BOOLEAN : EncryptMessageNew(storageOk)
  \/ \E p \in Party, storageOk \in BOOLEAN : EncryptMessageCached(p, storageOk)
  \/ \E env \in net : ReceiveCached(env)
  \/ \E env \in net : ReceiveFirst(env)
  \/ \E env \in net : ReceiveNoSession(env)

SpecStorage == BothInit /\ [][NextStorage]_vars

\* --- decryptMessage of strings of other versions ---------------------------
\* decryptMessage up to the version test: JSON.parse, then parsed.v, inside
\* the try whose catch returns the placeholder; with v = 2 the call goes on
\* to the session
decryptMessageText(input) ==
  LET parsed == JSONparse(input)
  IN  IF parsed.threw THEN [returned |-> TRUE, output |-> CannotDecrypt]
      ELSE IF parsed.value.type = "null" THEN [returned |-> TRUE, output |-> CannotDecrypt]
      ELSE IF parsed.value.v # Num(2) THEN [returned |-> TRUE, output |-> input]
      ELSE [returned |-> FALSE, output |-> input]

DecryptText(p, input) ==
  /\ decryptMessageText(input).returned
  /\ x3' = [x3 EXCEPT !.handled = [input |-> input,
                                   output |-> decryptMessageText(input).output]]
  /\ last' = [NoCall EXCEPT !.op = "text", !.p = p]
  /\ UNCHANGED <<ratchet, stored, net, emitted, nextKey, sent, refused, tampered,
                 tasks, claimVars>>

NextText ==
  \/ SendFirst(Me)
  \/ \E p \in Party : SendNext(p)
  \/ \E env \in net : ReceiveCached(env)
  \/ \E env \in net : ReceiveFirst(env)
  \/ \E p \in Party, input \in OtherTexts : DecryptText(p, input)

SpecText == BothInit /\ [][NextText]_vars

\* --- encryptMessage towards a user whose directory records may be missing --
\* the claim_one_time_prekey call as one transaction: the oldest unused row
\* (rows are numbered in the order they were made) is marked used and
\* returned (0: none left)
claimOneTimePreKey(rows) ==
  LET free == {id \in DOMAIN rows : ~rows[id].used}
  IN  IF free = {} THEN [keyId |-> 0, rows |-> rows]
      ELSE LET id == CHOOSE i \in free : \A j \in free : i <= j
           IN  [keyId |-> id, rows |-> [rows EXCEPT ![id].used = TRUE]]

\* the bundle of the remote user with the claimed one-time prekey, if any
bundleWith(remote, keyId) ==
  [bundleFor(remote) EXCEPT !.oneTimePreKey = IF keyId = 0 THEN NoOTPK ELSE @]

\* fetchPreKeyBundle with the claim made before the records are looked up
fetchPreKeyBundleClaimFirst(remote, directory, rows) ==
  LET otpkData == claimOneTimePreKey(rows)
  IN  IF ~directory.identity \/ ~directory.signedPreKey
      THEN [found |-> FALSE, bundle |-> bundleWith(remote, 0), rows |-> otpkData.rows]
      ELSE [found |-> TRUE, bundle |-> bundleWith(remote, otpkData.keyId),
            rows |-> otpkData.rows]

\* fetchPreKeyBundle: null without an identity record, null without a signed
\* prekey, and only then the claim
fetchPreKeyBundle(remote, directory, rows) ==
  IF ~directory.identity
  THEN [found |-> FALSE, bundle |-> bundleWith(remote, 0), rows |-> rows]
  ELSE IF ~directory.signedPreKey
  THEN [found |-> FALSE, bundle |-> bundleWith(remote, 0), rows |-> rows]
  ELSE LET otpkData == claimOneTimePreKey(rows)
       IN  [found |-> TRUE, bundle |-> bundleWith(remote, otpkData.keyId),
            rows |-> otpkData.rows]

\* the directory records of the peer of Me are there or not
DirectoryInit ==
  /\ ratchet = [p \in Party |-> NewRatchet]
  /\ stored = [p \in Party |-> NoStored]
  /\ net = {}
  /\ emitted = {}
  /\ nextKey = FirstRatchetKey
  /\ sent = [p \in Party |-> 0]
  /\ last = NoCall
  /\ refused = FALSE
  /\ tampered = 0
  /\ tasks = [t \in TaskIds |-> NoTask]
  /\ ClaimInit
  /\ \E identity \in BOOLEAN, signedPreKey \in BOOLEAN :
       x3 = [NoX3 EXCEPT !.localOtpks = [p \in Party |-> {OneTimePreKeyOf[p]}],
                         !.directory = [identity |-> identity,
                                        signedPreKey |-> signedPreKey]]

\* the peer uploads its identity record
PublishIdentity ==
  /\ ~x3.directory.identity
  /\ x3' = [x3 EXCEPT !.directory.identity = TRUE]
  /\ UNCHANGED <<ratchet, stored, net, emitted, nextKey, sent, last, refused,
                 tampered, tasks, claimVars>>

\* the peer uploads its signed prekey
PublishSignedPreKey ==
  /\ ~x3.directory.signedPreKey
  /\ x3' = [x3 EXCEPT !.directory.signedPreKey = TRUE]
  /\ UNCHANGED <<ratchet, stored, net, emitted, nextKey, sent, last, refused,
                 tampered, tasks, claimVars>>

\* encryptMessage by Me with no session: initiateSession throws when
\* fetchPreKeyBundle returns null; otherwise as EncryptMessageNew, on the
\* bundle fetched
EncryptMessageFetch(storageOk) ==
  /\ ratchet[Me] = NewRatchet
  /\ stored[Me] = NoStored
  /\ sent[Me] < MaxSent
  /\ LET fetched == fetchPreKeyBundle(Peer(Me), x3.directory, otpkRows)
         result == initiateSession(IdentityOf[Me], fetched.bundle,
                                   EphemeralOf[Me], nextKey)
         e == encrypt(result.ratchet, Msg(Me, sent[Me]))
         env == [to |-> Peer(Me), header |-> e.header, ciphertext |-> e.ciphertext]
     IN  /\ otpkRows' = fetched.rows
         /\ IF ~fetched.found
            THEN /\ last' = [NoCall EXCEPT !.op = "first", !.p = Me,
                                           !.res = "NoBundle",
                                           !.pt = Msg(Me, sent[Me])]
                 /\ UNCHANGED <<ratchet, stored, emitted, net, x3, nextKey, sent>>
            ELSE /\ ratchet' = [ratchet EXCEPT ![Me] = e.state]
                 /\ stored' = persistSession(Me, e.state, storageOk)
                 /\ IF storageOk
                    THEN /\ emitted' = emitted \cup {env}
                         /\ net' = net \cup {env}
                         /\ x3' = [x3 EXCEPT !.initiated[Me] =
                                     [done |-> TRUE, env |-> env,
                                      sharedSecret |-> result.sharedSecret,
                                      preamble |-> [identityKey |-> exportKey(IdentityOf[Me]),
                                                    ephemeralKey |-> result.ephemeralPublicKey,
                                                    oneTimePreKeyId |-> result.oneTimePreKeyId]]]
                    ELSE UNCHANGED <<emitted, net, x3>>
                 /\ last' = [NoCall EXCEPT !.op = "first", !.p = Me,
                                           !.res = IF storageOk THEN "ok" ELSE "StorageFailed",
                                           !.pt = Msg(Me, sent[Me]), !.header = e.header,
                                           !.ciphertext = e.ciphertext]
                 /\ nextKey' = nextKey + 1
                 /\ sent' = [sent EXCEPT ![Me] = @ + 1]
  /\ UNCHANGED <<refused, tampered, tasks, claim, returned>>

NextDirectory ==
  \/ PublishIdentity
  \/ PublishSignedPreKey
  \/ \E storageOk \in BOOLEAN : EncryptMessageFetch(storageOk)
  \/ \E p \in Party, storageOk \in BOOLEAN : EncryptMessageCached(p, storageOk)
  \/ \E env \in net : ReceiveCached(env)
  \/ \E env \in net : ReceiveFirst(env)
  \/ \E env \in net : ReceiveNoSession(env)

SpecDirectory == DirectoryInit /\ [][NextDirectory]_vars

\* --- initialize, rotation, refill and clearAll of one user -----------------
\* a record with the key id is in the store (the userId_keyId index is unique)
hasKeyId(records, keyId) == \E r \in records : r.keyId = keyId

\* upsert into identity_keys: the row is written when none is there; when one
\* is there it is replaced if the conflict is resolved on user_id and kept
\* (unique violation, the error is not looked at) otherwise
upsertIdentity(dir, row, dirOk, merge) ==
  IF ~dirOk THEN dir
  ELSE IF dir.identity = NoDirIdentity \/ merge THEN [dir EXCEPT !.identity = row]
  ELSE dir

\* position of the row with the key id in signed_prekeys (0: none)
rowOf(rows, keyId) ==
  IF \E i \in 1..Len(rows) : rows[i].key_id = keyId
  THEN CHOOSE i \in 1..Len(rows) : rows[i].key_id = keyId
  ELSE 0

\* upsert into signed_prekeys, unique on (user_id, key_id)
upsertSignedPreKey(dir, row, dirOk, merge) ==
  IF ~dirOk THEN dir
  ELSE IF rowOf(dir.spks, row.key_id) = 0 THEN [dir EXCEPT !.spks = Append(@, row)]
  ELSE IF merge THEN [dir EXCEPT !.spks[rowOf(dir.spks, row.key_id)] = row]
  ELSE dir

\* insert into one_time_prekeys, unique on (user_id, key_id): all rows or none
insertOneTimePreKeys(dir, rows, dirOk) ==
  IF ~dirOk THEN dir
  ELSE IF \E r \in rows, o \in dir.otpks : r.key_id = o.key_id THEN dir
  ELSE [dir EXCEPT !.otpks = @ \cup rows]

\* the rows the uploads make of local records
identityRow(identity) ==
  [identity_key |-> exportKey(identity.ik), signing_key |-> exportKey(identity.sk)]
signedPreKeyRow(entry) ==
  [key_id |-> entry.keyId, public_key |-> entry.publicKey, signature |-> entry.signature]
oneTimePreKeyRow(keyId, keyPair) ==
  [key_id |-> keyId, public_key |-> exportKey(keyPair), used |-> FALSE]

\* the outcome of a step of a call: the call goes on, returned or threw
callGoesOn(L, c, pc) == [life |-> [L EXCEPT !.call[c].pc = pc], res |-> "run"]
callThrew(L, c) == [life |-> [L EXCEPT !.call[c] = NoInitCall], res |-> "threw"]
callReturned(L, c) ==
  [life |-> [L EXCEPT !.call[c] = NoInitCall, !.initialized = TRUE], res |-> "ok"]

\* initialize, lines 30-50, between its awaits
initializeStep(L, c, dirOk) ==
  LET k == L.call[c]
  IN  CASE k.pc = "getLocalIdentity" ->
             IF L.local.identity = NoIdentity
             THEN callGoesOn(L, c, "saveLocalIdentity")
             ELSE callGoesOn([L EXCEPT !.call[c].identity = L.local.identity], c, "selectIdentity")
        [] k.pc = "selectIdentity" ->
             IF dirOk /\ L.dir.identity # NoDirIdentity
             THEN callGoesOn(L, c, "getLastRotation")
             ELSE callGoesOn(L, c, "uploadPublicKeys")
        [] k.pc = "uploadPublicKeys" ->
             callGoesOn([L EXCEPT !.dir = upsertIdentity(L.dir, identityRow(k.identity),
                                                   dirOk, L.merge)],
                  c, "getLastRotation")
        [] OTHER -> callReturned(L, c)

\* generateAndUploadKeys, lines 53-118, between its awaits
generateAndUploadKeysStep(L, c, storageOk, dirOk) ==
  LET k == L.call[c]
      identity == identityOf(k.n)
      signedPreKey == signedPreKeyEntry(identity.sk, 1, spkOf(k.n))
  IN  CASE k.pc = "saveLocalIdentity" ->
             IF ~storageOk THEN callThrew(L, c)
             ELSE callGoesOn([L EXCEPT !.local.identity = identity], c, "saveSignedPreKey")
        [] k.pc = "saveSignedPreKey" ->
             IF ~storageOk \/ hasKeyId(L.local.spks, 1) THEN callThrew(L, c)
             ELSE callGoesOn([L EXCEPT !.local.spks = @ \cup {signedPreKey}], c, "saveOneTimePreKey")
        [] k.pc = "saveOneTimePreKey" ->
             IF ~storageOk \/ hasKeyId(L.local.otpks, 1) THEN callThrew(L, c)
             ELSE callGoesOn([L EXCEPT !.local.otpks = @ \cup {[keyId |-> 1, keyPair |-> otpkOf(k.n)]}],
                       c, "upsertIdentity")
        [] k.pc = "upsertIdentity" ->
             callGoesOn([L EXCEPT !.dir = upsertIdentity(L.dir, identityRow(identity), dirOk, L.merge)],
                  c, "upsertSignedPreKey")
        [] k.pc = "upsertSignedPreKey" ->
             callGoesOn([L EXCEPT !.dir = upsertSignedPreKey(L.dir, signedPreKeyRow(signedPreKey),
                                                       dirOk, L.merge)],
                  c, "insertOneTimePreKeys")
        [] k.pc = "insertOneTimePreKeys" ->
             callGoesOn([L EXCEPT !.dir = insertOneTimePreKeys(L.dir,
                                      {oneTimePreKeyRow(1, otpkOf(k.n))}, dirOk)],
                  c, "setNextSignedPreKeyId")
        [] k.pc = "setNextSignedPreKeyId" ->
             IF ~storageOk THEN callThrew(L, c)
             ELSE callGoesOn([L EXCEPT !.local.meta.nextSignedPreKeyId = 2], c, "setNextOneTimePreKeyId")
        [] k.pc = "setNextOneTimePreKeyId" ->
             IF ~storageOk THEN callThrew(L, c)
             ELSE callGoesOn([L EXCEPT !.local.meta.nextOneTimePreKeyId = PoolSize + 1],
                       c, "setLastRotation")
        [] OTHER ->
             IF ~storageOk THEN callThrew(L, c)
             ELSE callGoesOn([L EXCEPT !.local.meta.lastSignedPreKeyRotation = L.now], c, "return")

\* rotatePreKeysIfNeeded, lines 129-170, between its awaits
rotatePreKeysIfNeededStep(L, c, storageOk, dirOk) ==
  LET k == L.call[c]
      entry == signedPreKeyEntry(k.signer.sk, k.nextId, spkOf(k.n))
  IN  CASE k.pc = "getLastRotation" ->
             IF rotatedRecently(L.local.meta.lastSignedPreKeyRotation, L.now)
             THEN callGoesOn(L, c, "countUnused")
             ELSE callGoesOn(L, c, "rotGetIdentity")
        [] k.pc = "rotGetIdentity" ->
             IF L.local.identity = NoIdentity
             THEN callGoesOn(L, c, "countUnused")
             ELSE callGoesOn([L EXCEPT !.call[c].signer = L.local.identity], c, "rotGetNextId")
        [] k.pc = "rotGetNextId" ->
             callGoesOn([L EXCEPT !.call[c].nextId =
                     IF L.local.meta.nextSignedPreKeyId = 0 THEN 1
                     ELSE L.local.meta.nextSignedPreKeyId],
                  c, "rotSaveSignedPreKey")
        [] k.pc = "rotSaveSignedPreKey" ->
             IF ~storageOk \/ hasKeyId(L.local.spks, k.nextId) THEN callThrew(L, c)
             ELSE callGoesOn([L EXCEPT !.local.spks = @ \cup {entry}], c, "rotUpsertSignedPreKey")
        [] k.pc = "rotUpsertSignedPreKey" ->
             callGoesOn([L EXCEPT !.dir = upsertSignedPreKey(L.dir, signedPreKeyRow(entry),
                                                       dirOk, L.merge)],
                  c, "rotSetNextId")
        [] k.pc = "rotSetNextId" ->
             IF ~storageOk THEN callThrew(L, c)
             ELSE callGoesOn([L EXCEPT !.local.meta.nextSignedPreKeyId = k.nextId + 1],
                       c, "rotSetLastRotation")
        [] OTHER ->
             IF ~storageOk THEN callThrew(L, c)
             ELSE callGoesOn([L EXCEPT !.local.meta.lastSignedPreKeyRotation = L.now],
                       c, "countUnused")

\* refillOneTimePreKeys, lines 172-206, between its awaits
refillOneTimePreKeysStep(L, c, storageOk, dirOk) ==
  LET k == L.call[c]
      count == IF dirOk THEN Cardinality({o \in L.dir.otpks : ~o.used}) ELSE 0
  IN  CASE k.pc = "countUnused" ->
             IF count >= RefillBelow THEN callGoesOn(L, c, "return")
             ELSE callGoesOn(L, c, "getNextOneTimePreKeyId")
        [] k.pc = "getNextOneTimePreKeyId" ->
             callGoesOn([L EXCEPT !.call[c].startId =
                     IF L.local.meta.nextOneTimePreKeyId = 0 THEN 1
                     ELSE L.local.meta.nextOneTimePreKeyId],
                  c, "refillSave")
        [] k.pc = "refillSave" ->
             IF ~storageOk \/ hasKeyId(L.local.otpks, k.startId) THEN callThrew(L, c)
             ELSE callGoesOn([L EXCEPT !.local.otpks =
                          @ \cup {[keyId |-> k.startId, keyPair |-> otpkOf(k.n)]}],
                       c, "refillInsert")
        [] k.pc = "refillInsert" ->
             callGoesOn([L EXCEPT !.dir = insertOneTimePreKeys(L.dir,
                                      {oneTimePreKeyRow(k.startId, otpkOf(k.n))}, dirOk)],
                  c, "refillSetNextId")
        [] OTHER ->
             IF ~storageOk THEN callThrew(L, c)
             ELSE callGoesOn([L EXCEPT !.local.meta.nextOneTimePreKeyId = k.startId + PoolSize],
                       c, "return")

\* where each function of the call stands
InitializePcs == {"getLocalIdentity", "selectIdentity", "uploadPublicKeys", "return"}
GeneratePcs ==
  {"saveLocalIdentity", "saveSignedPreKey", "saveOneTimePreKey", "upsertIdentity",
   "upsertSignedPreKey", "insertOneTimePreKeys", "setNextSignedPreKeyId",
   "setNextOneTimePreKeyId", "setLastRotation"}
RotatePcs ==
  {"getLastRotation", "rotGetIdentity", "rotGetNextId", "rotSaveSignedPreKey",
   "rotUpsertSignedPreKey", "rotSetNextId", "rotSetLastRotation"}
RefillPcs ==
  {"countUnused", "getNextOneTimePreKeyId", "refillSave", "refillInsert",
   "refillSetNextId"}

\* steps that write to the key store and steps that call the directory
StoragePcs ==
  {"saveLocalIdentity", "saveSignedPreKey", "saveOneTimePreKey",
   "setNextSignedPreKeyId", "setNextOneTimePreKeyId", "setLastRotation",
   "rotSaveSignedPreKey", "rotSetNextId", "rotSetLastRotation", "refillSave",
   "refillSetNextId"}
DirectoryPcs ==
  {"selectIdentity", "uploadPublicKeys", "upsertIdentity", "upsertSignedPreKey",
   "insertOneTimePreKeys", "rotUpsertSignedPreKey", "countUnused", "refillInsert"}

\* everything but the key lifecycle
notLife ==
  <<ratchet, net, emitted, nextKey, sent, refused, tampered, otpkRows, claim,
    returned, tasks, stored>>

\* no session, no envelope, no key record, empty directory; the directory
\* resolves upsert conflicts one way or the other
LifeInit ==
  /\ ratchet = [p \in Party |-> NewRatchet]
  /\ stored = [p \in Party |-> NoStored]
  /\ net = {}
  /\ emitted = {}
  /\ nextKey = FirstRatchetKey
  /\ sent = [p \in Party |-> 0]
  /\ last = NoCall
  /\ refused = FALSE
  /\ tampered = 0
  /\ tasks = [t \in TaskIds |-> NoTask]
  /\ ClaimInit
  /\ \E merge \in BOOLEAN : x3 = [NoX3 EXCEPT !.life.merge = merge]

\* a step's outcome is applied: the call's result is recorded when it ends
lifeAfter(c, out) ==
  [out.life EXCEPT !.result[c] = IF out.res = "run" THEN @ ELSE out.res]

\* a failure is spent only where the step writes to the store or calls the
\* directory
mayFail(L, c, storageOk, dirOk) ==
  /\ ~storageOk => (L.call[c].pc \in StoragePcs /\ dirOk)
  /\ ~dirOk => L.call[c].pc \in DirectoryPcs
  /\ (~storageOk \/ ~dirOk) => L.failures < MaxFailures

spend(L, storageOk, dirOk) ==
  IF storageOk /\ dirOk THEN L ELSE [L EXCEPT !.failures = @ + 1]

\* initialize is called: an initialized engine returns at once
InitializeBegin(c) ==
  /\ x3.life.call[c].pc = "idle"
  /\ ~x3.life.clearing
  /\ x3.life.started < MaxInits
  /\ x3' = [x3 EXCEPT !.life =
              IF @.initialized
              THEN [@ EXCEPT !.result[c] = "ok", !.started = @ + 1]
              ELSE [@ EXCEPT !.call[c] = [NoInitCall EXCEPT !.pc = "getLocalIdentity",
                                                            !.n = x3.life.started + 1],
                             !.result[c] = "none",
                             !.started = @ + 1]]
  /\ UNCHANGED <<last, notLife>>

InitializeStep(c, dirOk) ==
  /\ x3.life.call[c].pc \in InitializePcs
  /\ mayFail(x3.life, c, TRUE, dirOk)
  /\ x3' = [x3 EXCEPT !.life = lifeAfter(c, initializeStep(spend(@, TRUE, dirOk), c, dirOk))]
  /\ UNCHANGED <<last, notLife>>

GenerateStep(c, storageOk, dirOk) ==
  /\ x3.life.call[c].pc \in GeneratePcs
  /\ mayFail(x3.life, c, storageOk, dirOk)
  /\ x3' = [x3 EXCEPT !.life =
              lifeAfter(c, generateAndUploadKeysStep(spend(@, storageOk, dirOk), c,
                                                     storageOk, dirOk))]
  /\ UNCHANGED <<last, notLife>>

RotateStep(c, storageOk, dirOk) ==
  /\ x3.life.call[c].pc \in RotatePcs
  /\ mayFail(x3.life, c, storageOk, dirOk)
  /\ x3' = [x3 EXCEPT !.life =
              lifeAfter(c, rotatePreKeysIfNeededStep(spend(@, storageOk, dirOk), c,
                                                     storageOk, dirOk))]
  /\ UNCHANGED <<last, notLife>>

RefillStep(c, storageOk, dirOk) ==
  /\ x3.life.call[c].pc \in RefillPcs
  /\ mayFail(x3.life, c, storageOk, dirOk)
  /\ x3' = [x3 EXCEPT !.life =
              lifeAfter(c, refillOneTimePreKeysStep(spend(@, storageOk, dirOk), c,
                                                    storageOk, dirOk))]
  /\ UNCHANGED <<last, notLife>>

\* the page is loaded anew: a new engine, the calls in flight are gone
NewEngine ==
  /\ ~x3.life.clearing
  /\ x3.life.started < MaxInits
  /\ x3.life.initialized \/ \E c \in InitCalls : x3.life.result[c] # "none"
  /\ x3' = [x3 EXCEPT !.life.initialized = FALSE,
                      !.life.call = [c \in InitCalls |-> NoInitCall],
                      !.life.result = [c \in InitCalls |-> "none"]]
  /\ UNCHANGED <<last, notLife>>

\* time goes by until it is seven days since the last rotation
WeekPasses ==
  /\ x3.life.local.meta.lastSignedPreKeyRotation # 0
  /\ x3.life.now < x3.life.local.meta.lastSignedPreKeyRotation + SevenDays
  /\ x3' = [x3 EXCEPT !.life.now =
                        x3.life.local.meta.lastSignedPreKeyRotation + SevenDays]
  /\ UNCHANGED <<last, notLife>>

\* clearAll up to its await: the session cache is emptied, the engine is no
\* longer initialized
ClearAllBegin ==
  /\ ~x3.life.clearing
  /\ x3.life.clears < MaxClears
  /\ x3' = [x3 EXCEPT !.life.initialized = FALSE,
                      !.life.clearing = TRUE,
                      !.life.cacheCleared = TRUE,
                      !.life.clears = @ + 1]
  /\ UNCHANGED <<last, notLife>>

\* clearAllCryptoData: one transaction clears every object store
ClearAllStore ==
  /\ x3.life.clearing
  /\ x3' = [x3 EXCEPT !.life.local = EmptyStore, !.life.clearing = FALSE]
  /\ stored' = [stored EXCEPT ![Me] = NoStored]
  /\ UNCHANGED <<last, ratchet, net, emitted, nextKey, sent, refused, tampered,
                 otpkRows, claim, returned, tasks>>

\* initialize calls of one user that may overlap, on one engine after the
\* other; the store and the directory do not fail
NextInitRace ==
  \/ \E c \in InitCalls : InitializeBegin(c)
  \/ \E c \in InitCalls : InitializeStep(c, TRUE)
  \/ \E c \in InitCalls : GenerateStep(c, TRUE, TRUE)
  \/ \E c \in InitCalls : RotateStep(c, TRUE, TRUE)
  \/ \E c \in InitCalls : RefillStep(c, TRUE, TRUE)
  \/ NewEngine

SpecInitRace == LifeInit /\ [][NextInitRace]_vars

\* the call of initialize on one engine after the other, one call at a time
SerialCall == "i1"

\* initialize calls one at a time, over the weeks, with a write to the store
\* or a call of the directory failing
NextInitFail ==
  \/ InitializeBegin(SerialCall)
  \/ \E dirOk \in BOOLEAN : InitializeStep(SerialCall, dirOk)
  \/ \E storageOk \in BOOLEAN, dirOk \in BOOLEAN : GenerateStep(SerialCall, storageOk, dirOk)
  \/ \E storageOk \in BOOLEAN, dirOk \in BOOLEAN : RotateStep(SerialCall, storageOk, dirOk)
  \/ \E storageOk \in BOOLEAN, dirOk \in BOOLEAN : RefillStep(SerialCall, storageOk, dirOk)
  \/ NewEngine
  \/ WeekPasses

SpecInitFail == LifeInit /\ [][NextInitFail]_vars

\* the life of the keys of one user: initialize on one engine after the
\* other, rotation over the weeks, clearAll and a new initialize; nothing
\* fails
NextLifecycle ==
  \/ InitializeBegin(SerialCall)
  \/ InitializeStep(SerialCall, TRUE)
  \/ GenerateStep(SerialCall, TRUE, TRUE)
  \/ RotateStep(SerialCall, TRUE, TRUE)
  \/ RefillStep(SerialCall, TRUE, TRUE)
  \/ NewEngine
  \/ WeekPasses
  \/ ClearAllBegin
  \/ ClearAllStore

SpecLifecycle == LifeInit /\ [][NextLifecycle]_vars

\* --- the safety number of a conversation ------------------------------------
\* two users with any identity keys
SafetyInit ==
  /\ ratchet = [p \in Party |-> NewRatchet]
  /\ stored = [p \in Party |-> NoStored]
  /\ net = {}
  /\ emitted = {}
  /\ nextKey = FirstRatchetKey
  /\ sent = [p \in Party |-> 0]
  /\ last = NoCall
  /\ refused = FALSE
  /\ tampered = 0
  /\ tasks = [t \in TaskIds |-> NoTask]
  /\ ClaimInit
  /\ \E a \in TextJwks, b \in TextJwks :
       x3 = [NoX3 EXCEPT !.safety.a = a, !.safety.b = b]

\* each side calls generateSafetyNumber with its own key as the local one
ComputeSafetyNumbers ==
  /\ ~x3.safety.done
  /\ x3' = [x3 EXCEPT !.safety.done = TRUE,
                      !.safety.byA = generateSafetyNumber(x3.safety.a, x3.safety.b),
                      !.safety.byB = generateSafetyNumber(x3.safety.b, x3.safety.a)]
  /\ UNCHANGED <<last, notLife>>

NextSafety == ComputeSafetyNumbers

SpecSafety == SafetyInit /\ [][NextSafety]_vars

\* --- clearAll while calls on a session are in flight ------------------------
\* the key store after a first initialize
InitializedStore ==
  [identity |-> identityOf(1),
   spks |-> {signedPreKeyEntry(skOf(1), 1, spkOf(1))},
   otpks |-> {[keyId |-> 1, keyPair |-> otpkOf(1)]},
   meta |-> [nextSignedPreKeyId |-> 2, nextOneTimePreKeyId |-> PoolSize + 1,
             lastSignedPreKeyRotation |-> NoLife.now]]

\* an initialized engine with an established session, cached and stored
ClearInit ==
  LET e == FirstEnvelope
      d == decrypt(initBob(NewRatchet, SharedSecret, SPKb), e.header, e.ciphertext,
                   FirstRatchetKey + 1)
  IN  /\ ratchet = [p \in Party |-> IF p = Me THEN e.state ELSE d.state]
      /\ stored = [p \in Party |-> serialize(IF p = Me THEN e.state ELSE d.state)]
      /\ emitted = {[to |-> Peer(Me), header |-> e.header, ciphertext |-> e.ciphertext]}
      /\ net = {}
      /\ nextKey = FirstRatchetKey + 2
      /\ sent = [p \in Party |-> IF p = Me THEN 1 ELSE 0]
      /\ last = NoCall
      /\ refused = FALSE
      /\ tampered = 0
      /\ tasks = [t \in TaskIds |-> NoTask]
      /\ x3 = [NoX3 EXCEPT !.life.local = InitializedStore, !.life.initialized = TRUE]
      /\ ClaimInit

\* the calls of the user start on the cached session; clearAll may run at
\* any await of a call
NextClear ==
  \/ ~x3.life.cacheCleared /\ EncStart(SerialTask, 1)
  \/ \E env \in net : \E ciphertext \in {env.ciphertext, Garbage} :
        ~x3.life.cacheCleared /\ DecStart(SerialTask, env, ciphertext, 1)
  \/ TaskStep(SerialTask)
  \/ ClearAllBegin
  \/ ClearAllStore
  \/ PeerEncrypt
  \/ \E env \in net : PeerDeliver(env)

SpecClear == ClearInit /\ [][NextClear]_vars

\* --- first envelopes at the responder, in several conversations ------------
\* decryptMessage of the first envelope for a conversation with no session
\* cached or stored: completeSession up to the await of getOneTimePreKey; the
\* envelope stays with the chat layer, which may hand it in again
CompleteGet(c, conversation) ==
  /\ x3.phase \in {"initiated", "completed"}
  /\ x3.completion.calls[c].pc = "idle"
  /\ x3.completion.started < MaxCompletions
  /\ ~x3.completion.sessions[conversation].cached
  /\ x3.completion.sessions[conversation].record = NoStored
  /\ LET id == x3.preamble.oneTimePreKeyId
         found == id # 0 /\ id \in DOMAIN x3.otpks
     IN  x3' = [x3 EXCEPT
                  !.completion.started = @ + 1,
                  !.completion.calls[c] =
                    [pc |-> IF found THEN "got" ELSE "deleted",
                     conversation |-> conversation,
                     found |-> found,
                     otpk |-> IF found THEN x3.otpks[id] ELSE NoKeyPair]]
  /\ UNCHANGED <<ratchet, net, emitted, nextKey, sent, last, refused, tampered>>
  /\ UNCHANGED <<claimVars, taskVars>>

\* the two imports of the stored pair, then deleteOneTimePreKey
CompleteDelete(c) ==
  /\ x3.completion.calls[c].pc = "got"
  /\ x3' = [x3 EXCEPT
              !.otpks = IF x3.preamble.oneTimePreKeyId \in DOMAIN @
                        THEN MapDelete(@, x3.preamble.oneTimePreKeyId) ELSE @,
              !.completion.calls[c].pc = "deleted"]
  /\ UNCHANGED <<ratchet, net, emitted, nextKey, sent, last, refused, tampered>>
  /\ UNCHANGED <<claimVars, taskVars>>

\* the rest of the call: completeX3DH, initBob, sessions.set, then decrypt
\* and persistSession; a throw of decrypt is caught before persistSession
CompleteSession(c, env) ==
  /\ x3.completion.calls[c].pc = "deleted"
  /\ env \in net
  /\ env.to = Peer(Me)
  /\ LET call == x3.completion.calls[c]
         sharedSecret == completeX3DH(x3.ikb, x3.spk, call.otpk,
                                      x3.preamble.identityKey,
                                      x3.preamble.ephemeralKey)
         r == initBob(NewRatchet, sharedSecret, x3.spk)
         d == decrypt(r, env.header, env.ciphertext, nextKey)
     IN  /\ x3' = [x3 EXCEPT
                     !.phase = "completed",
                     !.ssB = sharedSecret,
                     !.completion.calls[c] = NoCompleteCall,
                     !.completion.sessions[call.conversation] =
                       [cached |-> TRUE, ratchet |-> d.state,
                        record |-> IF d.res = "ok" THEN serialize(d.state)
                                   ELSE @.record],
                     !.completion.completed =
                       Append(@, [conversation |-> call.conversation,
                                  preamble |-> x3.preamble.oneTimePreKeyId,
                                  used |-> IF call.found
                                           THEN x3.preamble.oneTimePreKeyId
                                           ELSE 0,
                                  ok |-> d.res = "ok"])]
         /\ nextKey' = IF d.stepped THEN nextKey + 1 ELSE nextKey
         /\ last' = [op |-> "dec", p |-> Peer(Me), res |-> d.res, pt |-> d.pt,
                     header |-> env.header, ciphertext |-> env.ciphertext,
                     before |-> r, stepped |-> d.stepped, genuine |-> TRUE,
                     clean |-> TRUE]
  /\ UNCHANGED <<ratchet, net, emitted, sent, refused, tampered>>
  /\ UNCHANGED <<claimVars, taskVars>>

\* decryptMessage for a conversation whose session is cached
DecryptCached(conversation, env) ==
  /\ x3.completion.sessions[conversation].cached
  /\ x3.completion.started < MaxCompletions
  /\ env \in net
  /\ env.to = Peer(Me)
  /\ LET r == x3.completion.sessions[conversation].ratchet
         d == decrypt(r, env.header, env.ciphertext, nextKey)
     IN  /\ x3' = [x3 EXCEPT
                     !.completion.started = @ + 1,
                     !.completion.sessions[conversation] =
                       [cached |-> TRUE, ratchet |-> d.state,
                        record |-> IF d.res = "ok" THEN serialize(d.state)
                                   ELSE @.record]]
         /\ nextKey' = IF d.stepped THEN nextKey + 1 ELSE nextKey
         /\ last' = [op |-> "dec", p |-> Peer(Me), res |-> d.res, pt |-> d.pt,
                     header |-> env.header, ciphertext |-> env.ciphertext,
                     before |-> r, stepped |-> d.stepped, genuine |-> TRUE,
                     clean |-> TRUE]
  /\ UNCHANGED <<ratchet, net, emitted, sent, refused, tampered>>
  /\ UNCHANGED <<claimVars, taskVars>>

NextComplete ==
  \/ EncryptFirst
  \/ \E c \in CompleteCalls, conversation \in Conversations :
        CompleteGet(c, conversation)
  \/ \E c \in CompleteCalls : CompleteDelete(c)
  \/ \E c \in CompleteCalls : \E env \in net : CompleteSession(c, env)
  \/ \E conversation \in Conversations : \E env \in net :
        DecryptCached(conversation, env)

SpecComplete == FirstInit /\ [][NextComplete]_vars

\* --- a transport that hands in an envelope more than once -----------------
MaxReplays == 2

\* an envelope that was delivered before reaches its addressee again
Redeliver(env) ==
  /\ env \in emitted \ net
  /\ ratchet[env.to].Nr < MaxSent + MaxReplays
  /\ Receive(env.to, env.header, env.ciphertext, TRUE)
  /\ UNCHANGED <<net, emitted, sent, tampered>>

NextReplay ==
  \/ \E p \in Party : Encrypt(p)
  \/ \E env \in net : Deliver(env)
  \/ \E env \in emitted : Redeliver(env)

SpecReplay == Init /\ [][NextReplay]_vars

\* --- one sending chain, delivered with two gaps ---------------------------
\* the transport keeps M1 and the envelopes from MAX_SKIP + 1 on
KeptFar(n) == n = 1 \/ n > MAX_SKIP

EncryptFar ==
  /\ sent["A"] < MAX_SKIP + MaxOver + 1
  /\ Send("A", KeptFar(ratchet["A"].Ns))

NextFar ==
  \/ EncryptFar
  \/ \E env \in net : Deliver(env)

SpecFar == Init /\ [][NextFar]_vars

\* --- headers whose dh is not a key ----------------------------------------
\* a header.dh that crypto.subtle.importKey rejects (no point of P-256)
BadJwk == [x |-> -7, y |-> -7]

\* decrypt of a header with such a dh: the cache and needsRatchet are looked
\* at as for any header; the ratchet step has written PN, Ns, Nr and DHrJwk
\* when importDHPublicKey throws (lines 108-112)
decryptUnimportable(r, header, ciphertext) ==
  LET skippedKey == skippedKeyOf(header.dh, header.n)
  IN  IF skippedKey \in DOMAIN r.MKSKIPPED
      THEN LET mk == r.MKSKIPPED[skippedKey]
               r1 == [r EXCEPT !.MKSKIPPED = MapDelete(@, skippedKey)]
               plaintext == aesDecrypt(mk, ciphertext)
           IN  decResult(r1, IF plaintext = AuthFail THEN "AuthFail" ELSE "ok",
                         plaintext, FALSE)
      ELSE LET needsRatchet == \/ r.DHrJwk = NoJwk
                               \/ r.DHrJwk.x # header.dh.x
                               \/ r.DHrJwk.y # header.dh.y
           IN  IF needsRatchet
               THEN IF r.CKr # NoKey /\ r.DHrJwk # NoJwk /\ skipThrows(r, header.pn)
                    THEN decResult(r, "TooManySkipped", AuthFail, FALSE)
                    ELSE LET r1 == IF r.CKr # NoKey /\ r.DHrJwk # NoJwk
                                   THEN skipMessageKeys(r, r.DHrJwk, header.pn)
                                   ELSE r
                             r2 == [r1 EXCEPT !.PN = r1.Ns, !.Ns = 0, !.Nr = 0,
                                              !.DHrJwk = header.dh]
                         IN  decResult(r2, "ImportFailed", AuthFail, FALSE)
               ELSE decryptChain(r, header, ciphertext, FALSE)

MaxMalformed == 1
MaxFewSent == 2

\* p is handed an envelope whose header.dh is not a key
DeliverMalformed(p, pn, n) ==
  /\ tampered < MaxMalformed
  /\ ratchet[p].DHs # NoKeyPair
  /\ LET header == [dh |-> BadJwk, pn |-> pn, n |-> n]
         d == decryptUnimportable(ratchet[p], header, Garbage)
     IN  /\ ratchet' = [ratchet EXCEPT ![p] = d.state]
         /\ last' = [op |-> "dec", p |-> p, res |-> d.res, pt |-> d.pt,
                     header |-> header, ciphertext |-> Garbage,
                     before |-> ratchet[p], stepped |-> d.stepped,
                     genuine |-> FALSE, clean |-> ~refused]
         /\ refused' = (refused \/ d.res # "ok")
  /\ tampered' = tampered + 1
  /\ UNCHANGED <<net, emitted, nextKey, sent>>
  /\ UNCHANGED notRatchetVars

EncryptFew(p) ==
  /\ sent[p] < MaxFewSent
  /\ Send(p, TRUE)

NextMalformed ==
  \/ \E p \in Party : EncryptFew(p)
  \/ \E env \in net : Deliver(env)
  \/ \E p \in Party : \E pn \in 0..1 : DeliverMalformed(p, pn, 0)

SpecMalformed == Init /\ [][NextMalformed]_vars

\* --- envelopes handed to decrypt any number of times -----------------------
\* decrypt of an envelope the peer emitted, for the first time or again; the
\* envelopes opened so far are remembered
Open(env) ==
  /\ env \in emitted
  /\ ratchet[env.to].Nr < MaxFewSent + MaxReplays
  /\ decryptCall(env.to, env.header, env.ciphertext, TRUE)
  /\ x3' = [x3 EXCEPT !.opened = IF last'.res = "ok" THEN @ \cup {env} ELSE @]
  /\ net' = net \ {env}
  /\ UNCHANGED <<emitted, sent, tampered>>
  /\ UNCHANGED <<claimVars, taskVars>>

NextOnce ==
  \/ \E p \in Party : EncryptFew(p)
  \/ \E env \in emitted : Open(env)

SpecOnce == Init /\ [][NextOnce]_vars

\* --- encryptMessage calls that overlap while no session exists -------------
RaceInit ==
  /\ ratchet = [p \in Party |-> NewRatchet]
  /\ stored = [p \in Party |-> NoStored]
  /\ net = {}
  /\ emitted = {}
  /\ nextKey = FirstRatchetKey
  /\ sent = [p \in Party |-> 0]
  /\ last = NoCall
  /\ refused = FALSE
  /\ tampered = 0
  /\ tasks = [t \in TaskIds |-> NoTask]
  /\ ClaimInit
  /\ x3 = [NoX3 EXCEPT !.otpks = ResponderOTPKs]

\* encrypt on the object, persistSession, and the envelope returned; x3dh is
\* attached by the branch that initiated, sessions.set done by the branches
\* that made the object
firstReturn(c, owner, object, withPreamble, sets) ==
  LET e == encrypt(object, Msg(Me, sent[Me]))
      env == [to |-> Peer(Me), header |-> e.header, ciphertext |-> e.ciphertext]
      call == x3.firsts.calls[c]
  IN  /\ x3' = [x3 EXCEPT
                  !.firsts.calls[owner].object = e.state,
                  !.firsts.calls[c].pc = "done",
                  !.firsts.cached = IF sets THEN c ELSE @,
                  !.firsts.preambles =
                    IF withPreamble
                    THEN @ \cup {[env |-> env,
                                  x3dh |-> [identityKey |-> exportKey(IdentityOf[Me]),
                                            ephemeralKey |-> call.ephemeralKey,
                                            oneTimePreKeyId |-> call.keyId]]}
                    ELSE @]
      /\ stored' = [stored EXCEPT ![Me] = serialize(e.state)]
      /\ emitted' = emitted \cup {env}
      /\ net' = net \cup {env}
      /\ sent' = [sent EXCEPT ![Me] = @ + 1]
      /\ last' = [NoCall EXCEPT !.op = "enc", !.p = Me, !.res = e.res,
                                !.pt = Msg(Me, sent[Me]), !.header = e.header,
                                !.ciphertext = e.ciphertext, !.before = object]

\* encryptMessage starts: with a cached session it encrypts on that object;
\* without one it awaits getSession
FirstBegin(c) ==
  /\ x3.firsts.calls[c].pc = "idle"
  /\ IF x3.firsts.cached # "none"
     THEN firstReturn(c, x3.firsts.cached,
                      x3.firsts.calls[x3.firsts.cached].object, FALSE, FALSE)
     ELSE /\ x3' = [x3 EXCEPT !.firsts.calls[c].pc = "lookup"]
          /\ UNCHANGED <<stored, emitted, net, sent, last>>
  /\ UNCHANGED <<ratchet, nextKey, refused, tampered, tasks, claimVars>>

\* getSession has resolved: a stored session is deserialized into a new
\* object, cached and used; with none the call goes on to initiateSession
FirstLookup(c) ==
  /\ x3.firsts.calls[c].pc = "lookup"
  /\ IF stored[Me] # NoStored
     THEN firstReturn(c, c, deserialize(stored[Me]), FALSE, TRUE)
     ELSE /\ x3' = [x3 EXCEPT !.firsts.calls[c].pc = "fetch"]
          /\ UNCHANGED <<stored, emitted, net, sent, last>>
  /\ UNCHANGED <<ratchet, nextKey, refused, tampered, tasks, claimVars>>

\* initiateSession up to the bundle: fetchPreKeyBundle claims a one-time
\* prekey of the remote user
FirstFetch(c) ==
  /\ x3.firsts.calls[c].pc = "fetch"
  /\ LET otpkData == claimOneTimePreKey(otpkRows)
     IN  /\ otpkRows' = otpkData.rows
         /\ x3' = [x3 EXCEPT !.firsts.calls[c].pc = "initiate",
                             !.firsts.calls[c].keyId = otpkData.keyId]
  /\ UNCHANGED <<ratchet, stored, net, emitted, nextKey, sent, last, refused,
                 tampered, tasks, claim, returned>>

\* initiateSession from the bundle to its last await: initiateX3DH with a
\* new ephemeral pair, initAlice with a new ratchet pair
FirstInitiate(c) ==
  /\ x3.firsts.calls[c].pc = "initiate"
  /\ LET bundle == bundleOf(IdentityOf[Peer(Me)],
                            signedPreKeyOf(SigningKeyOf[Peer(Me)],
                                           SignedPreKeyOf[Peer(Me)]),
                            x3.firsts.calls[c].keyId)
         result == initiateSession(IdentityOf[Me], bundle, nextKey, nextKey + 1)
     IN  x3' = [x3 EXCEPT !.firsts.calls[c].pc = "encrypt",
                          !.firsts.calls[c].object = result.ratchet,
                          !.firsts.calls[c].ephemeralKey = result.ephemeralPublicKey,
                          !.firsts.calls[c].sharedSecret = result.sharedSecret]
  /\ nextKey' = nextKey + 2
  /\ UNCHANGED <<ratchet, stored, net, emitted, sent, last, refused, tampered,
                 tasks, claimVars>>

\* initiateSession ends with sessions.set and returns; ratchet.encrypt on
\* the call's own object, the envelope with x3dh, persistSession
FirstEncrypt(c) ==
  /\ x3.firsts.calls[c].pc = "encrypt"
  /\ firstReturn(c, c, x3.firsts.calls[c].object, TRUE, TRUE)
  /\ UNCHANGED <<ratchet, nextKey, refused, tampered, tasks, claimVars>>

\* the x3dh preamble of an envelope, if it has one
preambleOf(env) == {q.x3dh : q \in {q \in x3.firsts.preambles : q.env = env}}

\* decryptMessage at the responder, envelopes in the order they were made:
\* without a session completeSession on the envelope's preamble (none: the
\* no-session text is returned), then decrypt and persistSession
ReceiveInOrder(env) ==
  /\ env \in net
  /\ \A other \in net : env.ciphertext.pt <= other.ciphertext.pt
  /\ LET B == Peer(Me)
         hasSession == ratchet[B] # NewRatchet
         x3dh == IF preambleOf(env) = {} THEN NoInitiation.preamble
                 ELSE CHOOSE q \in preambleOf(env) : TRUE
         id == x3dh.oneTimePreKeyId
         found == id # 0 /\ id \in DOMAIN x3.otpks
         completes == ~hasSession /\ preambleOf(env) # {}
         sharedSecret == completeX3DH(IdentityOf[B], SignedPreKeyOf[B],
                                      IF found THEN x3.otpks[id] ELSE NoKeyPair,
                                      x3dh.identityKey, x3dh.ephemeralKey)
         r == IF hasSession THEN ratchet[B]
              ELSE initBob(NewRatchet, sharedSecret, SignedPreKeyOf[B])
         d == decrypt(r, env.header, env.ciphertext, nextKey)
     IN  IF ~hasSession /\ ~completes
         THEN /\ last' = [NoCall EXCEPT !.op = "dec", !.p = B, !.res = "NoSession",
                                        !.header = env.header,
                                        !.ciphertext = env.ciphertext]
              /\ refused' = TRUE
              /\ UNCHANGED <<ratchet, stored, nextKey, x3>>
         ELSE /\ ratchet' = [ratchet EXCEPT ![B] = d.state]
              /\ stored' = IF d.res = "ok"
                           THEN [stored EXCEPT ![B] = serialize(d.state)]
                           ELSE stored
              /\ x3' = [x3 EXCEPT !.otpks = IF completes /\ found
                                            THEN MapDelete(@, id) ELSE @]
              /\ nextKey' = IF d.stepped THEN nextKey + 1 ELSE nextKey
              /\ refused' = (refused \/ d.res # "ok")
              /\ last' = [op |-> "dec", p |-> B, res |-> d.res, pt |-> d.pt,
                          header |-> env.header, ciphertext |-> env.ciphertext,
                          before |-> r, stepped |-> d.stepped, genuine |-> TRUE,
                          clean |-> ~refused]
  /\ net' = net \ {env}
  /\ UNCHANGED <<emitted, sent, tampered, tasks, claimVars>>

NextRace ==
  \/ \E c \in FirstCalls : FirstBegin(c)
  \/ \E c \in FirstCalls : FirstLookup(c)
  \/ \E c \in FirstCalls : FirstFetch(c)
  \/ \E c \in FirstCalls : FirstInitiate(c)
  \/ \E c \in FirstCalls : FirstEncrypt(c)
  \/ \E env \in net : ReceiveInOrder(env)

SpecRace == RaceInit /\ [][NextRace]_vars

\* --- a first envelope whose decrypt throws after completeSession -----------
\* decryptMessage with no session, of an envelope carrying a preamble and a
\* header.dh that is not a key: completeSession caches the ratchet initBob
\* made, decrypt throws inside its ratchet step, the throw is caught
ReceiveFirstMalformed(env) ==
  /\ tampered < MaxMalformed
  /\ Oldest(env)
  /\ ratchet[env.to] = NewRatchet
  /\ stored[env.to] = NoStored
  /\ x3.initiated[Peer(env.to)].done
  /\ env = x3.initiated[Peer(env.to)].env
  /\ LET p == env.to
         preamble == x3.initiated[Peer(p)].preamble
         found == preamble.oneTimePreKeyId # 0
                  /\ OneTimePreKeyOf[p] \in x3.localOtpks[p]
         sharedSecret == completeX3DH(IdentityOf[p], SignedPreKeyOf[p],
                                      IF found THEN OneTimePreKeyOf[p] ELSE NoKeyPair,
                                      preamble.identityKey, preamble.ephemeralKey)
         r == initBob(NewRatchet, sharedSecret, SignedPreKeyOf[p])
         header == [env.header EXCEPT !.dh = BadJwk]
         d == decryptUnimportable(r, header, env.ciphertext)
     IN  /\ x3' = [x3 EXCEPT !.localOtpks[p] =
                     IF found THEN @ \ {OneTimePreKeyOf[p]} ELSE @]
         /\ ratchet' = [ratchet EXCEPT ![p] = d.state]
         /\ last' = [op |-> "dec", p |-> p, res |-> d.res, pt |-> d.pt,
                     header |-> header, ciphertext |-> env.ciphertext,
                     before |-> r, stepped |-> d.stepped, genuine |-> FALSE,
                     clean |-> ~refused]
  /\ refused' = TRUE
  /\ tampered' = tampered + 1
  /\ net' = net \ {env}
  /\ UNCHANGED <<stored, emitted, sent, nextKey, tasks, claimVars>>

\* encryptMessage by p with a cached session: a throw of ratchet.encrypt
\* leaves the call; otherwise persistSession and the envelope
EncryptAnswer(p) ==
  /\ ratchet[p] # NewRatchet
  /\ sent[p] < MaxSent
  /\ LET e == encrypt(ratchet[p], Msg(p, sent[p]))
         env == [to |-> Peer(p), header |-> e.header, ciphertext |-> e.ciphertext]
     IN  /\ IF e.res = "ok"
            THEN /\ ratchet' = [ratchet EXCEPT ![p] = e.state]
                 /\ stored' = [stored EXCEPT ![p] = serialize(e.state)]
                 /\ emitted' = emitted \cup {env}
                 /\ net' = net \cup {env}
                 /\ sent' = [sent EXCEPT ![p] = @ + 1]
            ELSE UNCHANGED <<ratchet, stored, emitted, net, sent>>
         /\ last' = [op |-> "enc", p |-> p, res |-> e.res,
                     pt |-> Msg(p, sent[p]), header |-> e.header,
                     ciphertext |-> e.ciphertext, before |-> ratchet[p],
                     stepped |-> FALSE, genuine |-> TRUE, clean |-> ~refused]
  /\ UNCHANGED <<nextKey, refused, tampered, x3, tasks, claimVars>>

NextAnswer ==
  \/ \E p \in Party : SendFirst(p)
  \/ \E p \in Party : EncryptAnswer(p)
  \/ \E env \in net : ReceiveCached(env)
  \/ \E env \in net : ReceiveFirst(env)
  \/ \E env \in net : ReceiveFirstMalformed(env)

SpecAnswer == BothInit /\ [][NextAnswer]_vars

\* --- rotation of the signed prekey over the days ---------------------------
\* time goes by until the day before seven days since the last rotation
AlmostWeekPasses ==
  /\ x3.life.local.meta.lastSignedPreKeyRotation # 0
  /\ x3.life.now < x3.life.local.meta.lastSignedPreKeyRotation + SevenDays - 1
  /\ x3' = [x3 EXCEPT !.life.now =
                        x3.life.local.meta.lastSignedPreKeyRotation + SevenDays - 1]
  /\ UNCHANGED <<last, notLife>>

\* initialize on one engine after the other as the days go by; nothing fails
NextRotation ==
  \/ InitializeBegin(SerialCall)
  \/ InitializeStep(SerialCall, TRUE)
  \/ GenerateStep(SerialCall, TRUE, TRUE)
  \/ RotateStep(SerialCall, TRUE, TRUE)
  \/ RefillStep(SerialCall, TRUE, TRUE)
  \/ NewEngine
  \/ AlmostWeekPasses
  \/ WeekPasses

SpecRotation == LifeInit /\ [][NextRotation]_vars

\* ------------------------------------------------------------------------
\* Properties
\* ------------------------------------------------------------------------
\* the call just made was a decrypt of an envelope the peer emitted
DeliveredGenuine == last.op = "dec" /\ last.genuine

DecryptedOriginal == last.res = "ok" /\ last.pt = last.ciphertext.pt

\* C1: in one sending chain, every envelope delivered once, in any order in
\* which no call so far had to skip more than MAX_SKIP sequence numbers,
\* decrypts to the plaintext it was made from.
C1_OutOfOrderDecrypts ==
  (/\ DeliveredGenuine
   /\ last.clean
   /\ last.header.n - last.before.Nr <= MAX_SKIP)
  => DecryptedOriginal

\* M0 is served from the cache after a later message had MAX_SKIP keys skipped
C1_Witness ==
  /\ DeliveredGenuine /\ last.clean /\ DecryptedOriginal
  /\ last.header.n = 0
  /\ last.before.Nr > MAX_SKIP
  /\ Cardinality(DOMAIN last.before.MKSKIPPED) >= MAX_SKIP - MaxKept

\* C2: with both parties encrypting and envelopes of the two directions
\* crossing, every delivered envelope decrypts to its plaintext, across the
\* DH ratchet steps.
C2_InterleavedDecrypts == DeliveredGenuine => DecryptedOriginal

\* an envelope of a superseded chain is opened after two ratchet steps of
\* the receiver
C2_Witness ==
  /\ DeliveredGenuine /\ DecryptedOriginal
  /\ last.header.dh # last.before.DHrJwk
  /\ ~last.stepped
  /\ last.before.PN > 0
  /\ nextKey >= FirstRatchetKey + 3

\* C3: the secret initiateX3DH returns for the fetched bundle is the secret
\* completeX3DH computes from the preamble, with and without a one-time prekey.
C3_SharedSecretAgrees ==
  x3.phase = "completed" => (x3.ssB = x3.ssA /\ x3.ssA # << >>)

\* an agreement over four DH values has been completed
C3_Witness ==
  /\ x3.phase = "completed"
  /\ x3.bundle.oneTimePreKey # NoOTPK
  /\ Len(x3.ssA) = 4
  /\ Len(x3.ssB) = 4

\* the call just made was a decrypt that threw
DecryptFailedWith(res) == last.op = "dec" /\ last.res = res

\* C8: a decrypt that fails AEAD authentication leaves CKr, Ns, Nr and PN of
\* the live ratchet as they were before the call.
C8_AuthFailKeepsCounters ==
  DecryptFailedWith("AuthFail") =>
    /\ ratchet[last.p].CKr = last.before.CKr
    /\ ratchet[last.p].Nr = last.before.Nr
    /\ ratchet[last.p].Ns = last.before.Ns
    /\ ratchet[last.p].PN = last.before.PN

\* C9: a decrypt refused for exceeding MAX_SKIP leaves the whole ratchet
\* state as it was before the call, whatever the header.
C9_TooManySkippedKeepsState ==
  DecryptFailedWith("TooManySkipped") => ratchet[last.p] = last.before

\* C10: a failing decrypt leaves the skipped-key cache as it was before the
\* call: nothing inserted, the matched entry not removed.
C10_FailureKeepsSkippedCache ==
  (DecryptFailedWith("AuthFail") \/ DecryptFailedWith("TooManySkipped")) =>
    ratchet[last.p].MKSKIPPED = last.before.MKSKIPPED

\* C7: every one-time prekey id is returned to at most one claim, and every
\* returned row is marked used.
C7_ClaimedAtMostOnce ==
  /\ \A e1, e2 \in returned : e1.keyId = e2.keyId => e1 = e2
  /\ \A e \in returned : otpkRows[e.keyId].used

\* two initiators whose claims overlapped (one skipped the row the other had
\* locked) both got a row
C7_Witness ==
  \E e1, e2 \in returned :
    /\ e1.claimer # e2.claimer
    /\ e2.skipped
    /\ e1.keyId # e2.keyId


\* C4: whatever the interleaving of encryptMessage calls on one conversation,
\* no two emitted envelopes carry the same (header.dh, header.n) and no
\* message key encrypts two payloads.
C4_EncryptsStrictlyOrdered ==
  \A e1, e2 \in emitted :
    e1 # e2 => /\ <<e1.header.dh, e1.header.n>> # <<e2.header.dh, e2.header.n>>
               /\ e1.ciphertext.mk # e2.ciphertext.mk

\* the chain a message key descends from was made with this ratchet key
ChainOf(key, dh) == key.root # << >> /\ dh \in key.root[Len(key.root)]

\* C5: an encryptMessage call overlapping a decryptMessage call that makes a
\* DH ratchet step leaves what a serial order leaves: each emitted header
\* names the chain and index of the key that encrypted the envelope, once the
\* calls are over CKs is the next key of the chain of the current DHs, and
\* the peer decrypts what it is delivered.
C5_EncryptRacingRatchetIsSerial ==
  tampered = 0 =>
    /\ \A e \in emitted : /\ ChainOf(e.ciphertext.mk, e.header.dh.x)
                          /\ e.ciphertext.mk.i = e.header.n
    /\ InFlight("enc") \cup InFlight("dec") = {} =>
         /\ ChainOf(ratchet[Me].CKs, ratchet[Me].DHs)
         /\ ratchet[Me].CKs.i = ratchet[Me].Ns
    /\ DeliveredGenuine => DecryptedOriginal


\* the signature of the bundle's signed prekey is the signing key's over the
\* bundle's signed prekey
SignatureVerifies(bundle, signingKey) ==
  b642ab(bundle.signedPreKey.signature)
    = signData(signingKey, bundle.signedPreKey.publicKey)

\* C6: when the signed-prekey signature of the fetched bundle does not verify
\* against the remote user's published signing key, encryptMessage leaves no
\* session, cached or stored, and emits no envelope.
C6_BadSignatureRefused ==
  ~SignatureVerifies(x3.bundle, x3.signingKey) =>
    /\ ratchet[Me] = NewRatchet
    /\ stored[Me] = NoStored
    /\ emitted = {}


ReturnedByMe == {e \in emitted : e.to = Peer(Me)}

\* the stored session is past the envelope: it has left the envelope's chain
\* or its counter and chain key are beyond the envelope's
ReflectedIn(state, e) ==
  \/ state.DHs.publicKey # e.header.dh
  \/ /\ state.Ns > e.header.n
     /\ b642ab(state.CKs).root = e.ciphertext.mk.root
     /\ b642ab(state.CKs).i > e.ciphertext.mk.i

KeysOf(rk) == UNION {rk[i] : i \in 1..Len(rk)}

C13_StoredEqualsLive ==
  \A p \in Party : stored[p] = serialize(ratchet[p])


\* the directory served the responder's own signed prekey
ServedOwnSignedPreKey == x3.bundle.signedPreKey.publicKey = exportKey(x3.spk)

\* C14: when the responder's decryptMessage of the first envelope is cut off
\* before the session is stored, its one-time prekeys are as before the call,
\* and once the envelope has been processed the responder holds the
\* initiator's shared secret and has returned the plaintext.
C14_InterruptedCompletionRepeats ==
  /\ (x3.phase = "initiated" /\ tasks[SerialTask].kind = "none")
       => x3.otpks = ResponderOTPKs
  /\ (x3.phase = "completed" /\ ServedOwnSignedPreKey)
       => (x3.ssB = x3.ssA /\ DecryptedOriginal)


\* the responder completed the session although the one-time prekey the
\* preamble names was not in its store
CompletedWithoutNamedOTPK ==
  /\ x3.phase = "completed"
  /\ x3.preamble.oneTimePreKeyId # 0
  /\ x3.ssB = completeX3DH(x3.ikb, x3.spk, NoKeyPair, x3.preamble.identityKey,
                           x3.preamble.ephemeralKey)

\* C15: when the responder does not find the one-time prekey the preamble
\* names, decryptMessage reports the envelope undecryptable and afterwards
\* the responder has no session for the conversation, cached or stored.
C15_MissingPreKeyLeavesNoSession ==
  CompletedWithoutNamedOTPK =>
    /\ last.op = "dec" /\ last.res # "ok"
    /\ ratchet[Peer(Me)] = NewRatchet
    /\ stored[Peer(Me)] = NoStored


\* C16: when the responder rotated its signed prekey after the initiator
\* fetched a bundle holding the previous one, the responder still completes
\* the session with the initiator's shared secret and decrypts the envelope.
C16_RotationKeepsOldPreKeyUsable ==
  (/\ x3.phase = "completed"
   /\ x3.spkOld # 0
   /\ x3.bundle.signedPreKey.publicKey = exportKey(x3.spkOld))
  => (x3.ssB = x3.ssA /\ DecryptedOriginal)


\* the root key descends from the shared secret
DescendsFrom(rk, sharedSecret) ==
  /\ Len(rk) >= Len(sharedSecret)
  /\ SubSeq(rk, 1, Len(sharedSecret)) = sharedSecret

\* C17: whichever of the two users sends first, and also when both do before
\* either has received, every envelope delivered in emission order is
\* decrypted to its plaintext, and once a first envelope with a preamble has
\* been processed its addressee holds a session made from the sender's
\* shared secret.
C17_EitherSideMayStart ==
  /\ (last.op = "dec" /\ last.genuine) => (last.res = "ok" /\ last.pt = last.ciphertext.pt)
  /\ \A p \in Party :
       (x3.initiated[p].done /\ x3.initiated[p].env \notin net)
         => DescendsFrom(ratchet[Peer(p)].RK, x3.initiated[p].sharedSecret)

\* the envelopes encryptMessage returned to p
ReturnedTo(p) == {env \in emitted : env.to = Peer(p)}

\* the envelope is the one p attached the x3dh preamble to
CarriesPreamble(p, env) == x3.initiated[p].done /\ x3.initiated[p].env = env

\* C18: of the envelopes encryptMessage returned for a session made by the
\* initiator path, the first carries the x3dh preamble and no later one does,
\* whatever the outcome of the first attempt.
C18_FirstReturnedCarriesPreamble ==
  \A first \in ReturnedTo(Me) :
    (\A env \in ReturnedTo(Me) : first.ciphertext.pt <= env.ciphertext.pt)
      => /\ CarriesPreamble(Me, first)
         /\ \A env \in ReturnedTo(Me) \ {first} : ~CarriesPreamble(Me, env)

\* C19: decryptMessage of a string that does not carry v = 2 returns the
\* string itself and changes neither the session cache nor the key store.
C19_OtherVersionsPassThrough ==
  [][last'.op = "text" =>
       /\ x3'.handled.output = x3'.handled.input
       /\ ratchet' = ratchet
       /\ stored' = stored
       /\ x3'.localOtpks = x3.localOtpks]_vars

\* the directory has both records a bundle needs
DirectoryComplete == x3.directory.identity /\ x3.directory.signedPreKey

\* C20: while the directory lacks the identity record or the signed prekey
\* of the remote user, encryptMessage fails and leaves no session cached or
\* stored, no envelope emitted and no one-time prekey of that user claimed.
C20_MissingRecordsFailCleanly ==
  (last.op = "first" /\ ~DirectoryComplete) =>
    /\ last.res = "NoBundle"
    /\ ratchet[Me] = NewRatchet
    /\ stored[Me] = NoStored
    /\ ReturnedTo(Me) = {}
    /\ \A id \in DOMAIN otpkRows : ~otpkRows[id].used

\* encryptMessage failed for want of a signed prekey while one-time prekeys
\* were there to claim
C20_Witness ==
  /\ last.op = "first"
  /\ last.res = "NoBundle"
  /\ x3.directory.identity
  /\ ~x3.directory.signedPreKey
  /\ \E id \in DOMAIN otpkRows : ~otpkRows[id].used

\* no initialize call is in flight
NoCallInFlight(L) == \A c \in InitCalls : L.call[c].pc = "idle"

\* C21: an identity record, once written, is not replaced by a later or an
\* overlapping initialize call, and when the calls are over the directory
\* publishes the public keys of the local identity.
C21_IdentityWrittenOnce ==
  [][/\ x3.life.local.identity # NoIdentity
          => x3'.life.local.identity = x3.life.local.identity
     /\ (NoCallInFlight(x3'.life) /\ x3'.life.local.identity # NoIdentity)
          => x3'.life.dir.identity = identityRow(x3'.life.local.identity)]_vars

\* C22: when a write to the store or a call of the directory fails in the
\* rotation or in the refill of an initialize call, the call does not throw.
C22_RotationAndRefillFailuresNonFatal ==
  [][\A c \in InitCalls :
       (/\ x3.life.call[c].pc \in RotatePcs \cup RefillPcs
        /\ x3'.life.failures > x3.life.failures)
         => x3'.life.result[c] # "threw"]_vars

\* the ECDSA signature is one over the data by the private half of the
\* published signing key
VerifiesUnder(signingKey, signature, data) ==
  b642ab(signature) = signData(importDHPublicKey(signingKey), data)

\* C23: every signed prekey row of the user in the directory carries a
\* signature over its public key that verifies under the signing key the
\* directory publishes for the user.
C23_PublishedSignaturesVerify ==
  x3.life.dir.identity # NoDirIdentity =>
    \A i \in 1..Len(x3.life.dir.spks) :
      VerifiesUnder(x3.life.dir.identity.signing_key,
                    x3.life.dir.spks[i].signature, x3.life.dir.spks[i].public_key)

\* the identity key and the latest signed prekey a bundle fetch returns have
\* their private halves in the local store
BundleCompletable(L) ==
  /\ L.dir.identity # NoDirIdentity
  /\ Len(L.dir.spks) > 0
  /\ L.dir.identity.identity_key = exportKey(L.local.identity.ik)
  /\ \E e \in L.local.spks :
       /\ e.keyId = L.dir.spks[Len(L.dir.spks)].key_id
       /\ e.publicKey = L.dir.spks[Len(L.dir.spks)].public_key

\* C24: once initialize has returned, a bundle fetch for the user returns an
\* identity key and a latest signed prekey whose private halves are in the
\* user's key store.
C24_InitializedUserIsReachable ==
  (x3.life.initialized /\ NoCallInFlight(x3.life)) => BundleCompletable(x3.life)

\* C25: generateSafetyNumber(A, B) = generateSafetyNumber(B, A) for every pair
\* of identity public keys.
C25_SafetyNumberCommutes ==
  x3.safety.done => x3.safety.byA = x3.safety.byB

\* the numbers were computed for two different keys, the second of which
\* stringifies to the lower string, one being a prefix of the other's x
C25_Witness ==
  /\ x3.safety.done
  /\ x3.safety.a # x3.safety.b
  /\ strLess(stringifyJwk(x3.safety.b), stringifyJwk(x3.safety.a))
  /\ Len(x3.safety.a.x) # Len(x3.safety.b.x)

\* C26: once clearAll has returned, the key store holds no identity, prekey,
\* session or metadata record and the session cache is empty.
C26_ClearAllLeavesNothing ==
  (x3.life.clears > 0 /\ ~x3.life.clearing) =>
    /\ x3.life.local = EmptyStore
    /\ stored[Me] = NoStored
    /\ x3.life.cacheCleared

\* the call just made was an encryptMessage through the hook of a ready engine
EncryptedThroughHook == last.op \in {"first", "enc"}

\* what the hook handed to the chat layer for it
HookResult == hookEncrypt(TRUE, last.pt, last.res, last.header, last.ciphertext)

\* C27: what the encrypt operation hands to the chat layer is an envelope
\* string, and never the plaintext it was given.
C27_HookReturnsEnvelopes ==
  EncryptedThroughHook =>
    /\ isSignalMessage(HookResult)
    /\ HookResult # messageString(last.pt)

\* C28: once decryptMessage has completed a session with the one-time prekey
\* k its preamble names and returned the plaintext, the responder's store
\* holds no key k and no later completion, in any conversation, uses key k.
C28_PreKeyUsedOnce ==
  \A i \in DOMAIN x3.completion.completed :
      LET done == x3.completion.completed[i]
      IN  (done.ok /\ done.used # 0) =>
            /\ done.used \notin DOMAIN x3.otpks
            /\ \A j \in DOMAIN x3.completion.completed :
                  j > i => x3.completion.completed[j].used # done.used

\* the envelopes emitted so far in the sending chain with ratchet key dh
\* towards p
ChainEnvelopes(p, dh) == {env \in emitted : env.to = p /\ env.header.dh = dh}

\* every envelope of the chain has been handed to p's decrypt, once, and no
\* decrypt so far has thrown
ChainDecrypted(p, dh) ==
  /\ ~refused
  /\ ChainEnvelopes(p, dh) # {}
  /\ ChainEnvelopes(p, dh) \cap net = {}

\* the entries p's skipped-key cache holds for the chain
SkippedOfChain(p, dh) ==
  {key \in DOMAIN ratchet[p].MKSKIPPED : key = skippedKeyOf(dh, key[3])}

\* C29: once every message of a receiving chain has been decrypted, each
\* once and in whatever order, the skipped-key cache holds no entry of that
\* chain; it is empty when this is so for every chain.
C29_CacheDrainsWithChain ==
  /\ \A env \in emitted :
        ChainDecrypted(env.to, env.header.dh) =>
          SkippedOfChain(env.to, env.header.dh) = {}
  /\ \A p \in Party :
        (\A env \in emitted : env.to = p => ChainDecrypted(p, env.header.dh))
          => DOMAIN ratchet[p].MKSKIPPED = {}

\* the last envelope of a chain of three was opened with a key from the
\* cache, which is empty afterwards
C29_Witness ==
  /\ DeliveredGenuine /\ DecryptedOriginal
  /\ skippedKeyOf(last.header.dh, last.header.n) \in DOMAIN last.before.MKSKIPPED
  /\ Cardinality(ChainEnvelopes(last.p, last.header.dh)) >= 3
  /\ ChainDecrypted(last.p, last.header.dh)
  /\ DOMAIN ratchet[last.p].MKSKIPPED = {}

\* the call just made was a decrypt for the current receiving chain with a
\* sequence number the chain has passed
BelowNr ==
  /\ last.op = "dec"
  /\ last.before.DHrJwk # NoJwk
  /\ last.header.dh = last.before.DHrJwk
  /\ last.header.n < last.before.Nr

\* C30: a decrypt for the current receiving chain with n below Nr succeeds
\* only with an entry of the skipped-key cache and leaves CKr and Nr as they
\* were.
C30_BelowNrServedFromCache ==
  BelowNr =>
    /\ last.res = "ok" =>
         skippedKeyOf(last.header.dh, last.header.n) \in DOMAIN last.before.MKSKIPPED
    /\ ratchet[last.p].CKr = last.before.CKr
    /\ ratchet[last.p].Nr = last.before.Nr

\* the envelope just handed to decrypt belongs to a receiving chain the
\* receiver has left: key pairs are numbered as they are generated, so an
\* older ratchet key of the peer has the lower number
Superseded ==
  /\ DeliveredGenuine
  /\ last.before.DHrJwk # NoJwk
  /\ last.header.dh.x < last.before.DHrJwk.x

\* C31: an envelope of a superseded receiving chain is opened with the key
\* cached under (its ratchet key, n): no ratchet step, nothing but that cache
\* entry changes; and a decrypt takes no cache entry but the one of its own
\* chain and number, which opens its payload.
C31_SupersededServedFromCache ==
  /\ Superseded =>
       /\ DecryptedOriginal
       /\ ~last.stepped
       /\ skippedKeyOf(last.header.dh, last.header.n) \in DOMAIN last.before.MKSKIPPED
       /\ ratchet[last.p] =
            [last.before EXCEPT
               !.MKSKIPPED = MapDelete(@, skippedKeyOf(last.header.dh, last.header.n))]
  /\ DeliveredGenuine =>
       LET taken == (DOMAIN last.before.MKSKIPPED) \ (DOMAIN ratchet[last.p].MKSKIPPED)
       IN  /\ taken \subseteq {skippedKeyOf(last.header.dh, last.header.n)}
           /\ taken # {} => DecryptedOriginal

\* an envelope of the superseded chain is opened after the current chain has
\* passed the same sequence number
C31_Witness ==
  /\ Superseded /\ DecryptedOriginal
  /\ last.before.Nr > last.header.n
  /\ ratchet[last.p].Nr = last.before.Nr

\* C32: the skipped-key cache never holds more than MAX_SKIP entries of one
\* receiving chain (so no more than MAX_SKIP keys of a chain were skipped
\* and are still owed).
C32_CacheBoundedPerChain ==
  \A p \in Party : \A key \in DOMAIN ratchet[p].MKSKIPPED :
      Cardinality(SkippedOfChain(p, [x |-> key[1], y |-> key[2]])) <= MAX_SKIP

\* the envelope the encrypt call just made
LastEnvelope == [to |-> Peer(last.p), header |-> last.header, ciphertext |-> last.ciphertext]

\* the envelopes its sender had emitted before it under the same ratchet key
EmittedBefore ==
  {env \in emitted \ {LastEnvelope} :
      env.to = LastEnvelope.to /\ env.header.dh = last.header.dh}

\* the decrypt just made began a DH ratchet step (it wrote DHrJwk)
StepBegun == last.stepped \/ ratchet[last.p].DHrJwk # last.before.DHrJwk

\* C33: PN is 0 until the first DH ratchet step and changes only in a step,
\* to the value Ns had before it; an envelope carries that PN as pn and, as
\* n, the number of envelopes emitted before it under the same DHs.
C33_PNFollowsRatchetSteps ==
  /\ (last.op = "dec" /\ StepBegun) =>
        ratchet[last.p].PN = last.before.Ns /\ ratchet[last.p].Ns = 0
  /\ (last.op = "dec" /\ ~StepBegun) =>
        ratchet[last.p].PN = last.before.PN /\ ratchet[last.p].Ns = last.before.Ns
  /\ (last.op = "enc" /\ last.res = "ok") =>
        /\ ratchet[last.p].PN = last.before.PN
        /\ last.header.pn = last.before.PN
        /\ last.header.dh = exportKey(last.before.DHs)
        /\ last.header.n = Cardinality(EmittedBefore)

\* the call just made was a decrypt whose header names the current DHr
SameRatchetKey ==
  /\ last.op = "dec"
  /\ last.before.DHrJwk # NoJwk
  /\ last.header.dh = last.before.DHrJwk

\* C34: a decrypt whose header.dh is the current DHr makes no DH ratchet
\* step: DHs, DHr, RK, CKs, Ns and PN stay as they were.
C34_SameKeyNoRatchetStep ==
  SameRatchetKey =>
    /\ ~last.stepped
    /\ ratchet[last.p].DHs = last.before.DHs
    /\ ratchet[last.p].DHr = last.before.DHr
    /\ ratchet[last.p].DHrJwk = last.before.DHrJwk
    /\ ratchet[last.p].RK = last.before.RK
    /\ ratchet[last.p].CKs = last.before.CKs
    /\ ratchet[last.p].Ns = last.before.Ns
    /\ ratchet[last.p].PN = last.before.PN

\* a second envelope of the current chain is opened after one was skipped:
\* the chain and the cache move, nothing else
C34_Witness ==
  /\ SameRatchetKey /\ DecryptedOriginal
  /\ last.before.Nr >= 1
  /\ ratchet[last.p].Nr > last.before.Nr + 1
  /\ ratchet[last.p].MKSKIPPED # last.before.MKSKIPPED

\* the three shapes of a ratchet
InitiatorInitial(r) == r.CKs # NoKey /\ r.DHr # 0 /\ r.CKr = NoKey

ResponderInitial(r) ==
  /\ r.CKs = NoKey /\ r.CKr = NoKey /\ r.DHr = 0
  /\ r.Ns = 0 /\ r.Nr = 0 /\ r.PN = 0
  /\ r.MKSKIPPED = EmptyMap
  /\ r.DHs = SPKb

Steady(r) == r.CKs # NoKey /\ r.CKr # NoKey /\ r.DHr # 0

\* C35: every ratchet, also after a decrypt that threw part-way, is
\* initiator-initial, responder-initial or steady; and the first decrypt
\* that succeeds on a responder-initial ratchet installs CKr and a fresh DHs
\* with CKs.
C35_ThreeShapes ==
  /\ \A p \in Party :
        \/ InitiatorInitial(ratchet[p])
        \/ ResponderInitial(ratchet[p])
        \/ Steady(ratchet[p])
  /\ (last.op = "dec" /\ last.res = "ok" /\ ResponderInitial(last.before)) =>
        /\ last.stepped
        /\ Steady(ratchet[last.p])
        /\ ratchet[last.p].DHs # last.before.DHs

\* a responder that was handed an unusable header first, and then opened
\* its first envelope
C35_Witness ==
  /\ DeliveredGenuine /\ DecryptedOriginal
  /\ ResponderInitial(last.before)
  /\ last.before.DHrJwk = BadJwk
  /\ Steady(ratchet[last.p])

\* the envelope of the decrypt call made in the step
OpenedNow ==
  [to |-> last'.p, header |-> last'.header, ciphertext |-> last'.ciphertext]

\* C36: with the calls of a ratchet made one after another, no envelope is
\* opened twice: a decrypt of an envelope that was opened before fails.
C36_OpenedAtMostOnce ==
  [][(last'.op = "dec" /\ OpenedNow \in x3.opened) => last'.res # "ok"]_vars

\* an envelope that had been opened was handed in again, its number below
\* Nr, and refused
C36_Witness ==
  /\ last.op = "dec" /\ last.res # "ok"
  /\ [to |-> last.p, header |-> last.header, ciphertext |-> last.ciphertext] \in x3.opened
  /\ last.header.n < last.before.Nr
  /\ last.before.Nr > 1

\* both encryptMessage calls have returned
BothReturned == \A c \in FirstCalls : x3.firsts.calls[c].pc = "done"

\* C37: two encryptMessage calls on a conversation without a session make
\* one initiation between them: one one-time prekey claimed, the cached
\* ratchet is the persisted one, one envelope carries x3dh, and the
\* responder opens both envelopes.
C37_OneInitiation ==
  BothReturned =>
    /\ Cardinality({id \in DOMAIN otpkRows : otpkRows[id].used}) = 1
    /\ Cardinality(x3.firsts.preambles) = 1
    /\ x3.firsts.cached # "none"
    /\ stored[Me] = serialize(x3.firsts.calls[x3.firsts.cached].object)
    /\ net = {} => ~refused

\* the ratchet encryptMessage would use for p's conversation: the cached one,
\* else the stored one
SessionFor(p) ==
  IF ratchet[p] # NewRatchet THEN ratchet[p]
  ELSE IF stored[p] # NoStored THEN deserialize(stored[p]) ELSE NewRatchet

\* C38: the ratchet encryptMessage would use always has a sending chain key,
\* and encryptMessage never ends in the not-initialized error of encrypt,
\* also after a first envelope whose decrypt failed once the responder
\* ratchet existed.
C38_SendingChainPresent ==
  /\ \A p \in Party : SessionFor(p) # NewRatchet => SessionFor(p).CKs # NoKey
  /\ last.op = "enc" => last.res # "NotInitialized"

\* encryptMessage has thrown the not-initialized error
EncryptNotInitialized == last.op = "enc" /\ last.res = "NotInitialized"

\* the key ids the user has had assigned: those in the key store and those
\* published in the directory
SignedIds(L) == {e.keyId : e \in L.local.spks} \cup {L.dir.spks[i].key_id : i \in 1..Len(L.dir.spks)}
OneTimeIds(L) == {e.keyId : e \in L.local.otpks} \cup {o.key_id : o \in L.dir.otpks}

\* no initialize and no clearAll is under way
LifeAtRest(L) == ~L.clearing /\ \A c \in InitCalls : L.call[c].pc = "idle"

\* the local records and the directory rows with the same id hold the same
\* public key
OneKeyPerId(L) ==
  /\ \A e \in L.local.spks : \A i \in 1..Len(L.dir.spks) :
       L.dir.spks[i].key_id = e.keyId => L.dir.spks[i].public_key = e.publicKey
  /\ \A e \in L.local.otpks : \A o \in L.dir.otpks :
       o.key_id = e.keyId => o.public_key = exportKey(e.keyPair)

\* the stored counters are above every id in the key store
CountersAhead(L) ==
  /\ \A e \in L.local.spks : e.keyId < L.local.meta.nextSignedPreKeyId
  /\ \A e \in L.local.otpks : e.keyId < L.local.meta.nextOneTimePreKeyId

\* C39: key ids are assigned monotonically over initialize, rotation, refill
\* and clearAll: a new signed or one-time prekey gets an id above every id
\* assigned before (1 for the first), and once the operation is over the
\* counters are above every id and no id stands for two key pairs.
C39_IdsMonotonic ==
  [][/\ \A e \in x3'.life.local.spks \ x3.life.local.spks :
          \A id \in SignedIds(x3.life) : id < e.keyId
     /\ \A e \in x3'.life.local.otpks \ x3.life.local.otpks :
          \A id \in OneTimeIds(x3.life) : id < e.keyId
     /\ LifeAtRest(x3'.life) => CountersAhead(x3'.life) /\ OneKeyPerId(x3'.life)]_vars

\* the signed prekeys in the key store and in the directory, the next signed
\* prekey id and the time of the last rotation
SignedPreKeyState(L) ==
  <<L.local.spks, L.dir.spks, L.local.meta.nextSignedPreKeyId,
    L.local.meta.lastSignedPreKeyRotation>>

\* the steps of rotatePreKeysIfNeeded after its test of the last rotation
RotatingPcs == RotatePcs \ {"getLastRotation"}

\* the rotation the call k has made is in L: a new key pair under the id the
\* call read, signed by the identity's signing key, above the older entries,
\* published as it is stored, the counter one above it and the time written
RotationDone(L, k, now) ==
  /\ \E e \in L.local.spks :
       /\ e.keyId = k.nextId
       /\ e.signature = ab2b64(signData(L.local.identity.sk, e.publicKey))
       /\ \A o \in L.local.spks \ {e} : o.keyId < e.keyId /\ o.keyPair # e.keyPair
       /\ \E i \in 1..Len(L.dir.spks) : L.dir.spks[i] = signedPreKeyRow(e)
  /\ L.local.meta.nextSignedPreKeyId = k.nextId + 1
  /\ L.local.meta.lastSignedPreKeyRotation = now

\* C40: at an initialize of a user with an identity and a recorded last
\* rotation, a new signed prekey is made (id the next signed prekey id,
\* signed, stored beside the older ones, published, counter and rotation time
\* written) exactly when seven days or more have gone by since that
\* rotation; otherwise the signed prekeys, the counter and the rotation time
\* stay as they are.
C40_RotationAfterSevenDays ==
  [][\A c \in InitCalls :
       LET L == x3.life
           M == x3'.life
           k == L.call[c]
           lastRotation == L.local.meta.lastSignedPreKeyRotation
           stepped == M.call[c].pc # k.pc
       IN  /\ (k.pc = "getLastRotation" /\ stepped /\ lastRotation # 0) =>
                M.call[c].pc = IF L.now - lastRotation >= SevenDays
                               THEN "rotGetIdentity" ELSE "countUnused"
           /\ SignedPreKeyState(M) # SignedPreKeyState(L) =>
                \E o \in InitCalls : L.call[o].pc \in RotatingPcs \cup GeneratePcs
           /\ (k.pc \in RotatingPcs /\ stepped) =>
                /\ M.result[c] # "threw"
                /\ L.local.spks \subseteq M.local.spks
                /\ M.call[c].pc \in IF k.pc = "rotSetLastRotation"
                                    THEN {"countUnused"} ELSE RotatingPcs
                /\ k.pc = "rotGetNextId" =>
                     M.call[c].nextId = L.local.meta.nextSignedPreKeyId
                /\ k.pc = "rotSetLastRotation" => RotationDone(M, k, L.now)]_vars

\* a rotation was made exactly seven days after the first keys
C40_Witness ==
  /\ x3.life.local.meta.lastSignedPreKeyRotation = NoLife.now + SevenDays
  /\ \E e \in x3.life.local.spks : e.keyId = 2
  /\ x3.life.local.meta.nextSignedPreKeyId = 3

====
